---- MODULE Spec2Model ----
(***************************************************************************)
(* Bronze ingestion engine of SASPData: content store, URL health tracker, *)
(* retrying HTTP GET, threaded and asyncio team ingesters.                 *)
(***************************************************************************)
EXTENDS Integers, Sequences, FiniteSets, TLC

(***************************************************************************)
(* Values shared by all parts                                              *)
(***************************************************************************)

\* SQL NULL / Python None
NULL == -1

\* a timestamp produced by now(): the models only distinguish set from NULL
TS == 1

\* bound: 404 calls for one URL are issued while its counter is below this
Max404 == 6

(***************************************************************************)
(* src/src/ingest.py : content store and URL health tracker                *)
(***************************************************************************)

VARIABLES raw, url_status, ret, lastOp

ingestVars == <<raw, url_status, ret, lastOp>>

\* the raw tables written by ingest_endpoint
Tables == {"raw_scoreboard", "raw_schedule"}

\* URLs as path segments; a segment is numeric or textual
Urls == { << <<"txt", "sasp-scoreboard">>, <<"num", 50>> >>,
          << <<"txt", "sasp-scoreboard">>, <<"num", 98>> >>,
          << <<"txt", "competitions">> >> }

\* re.search(r"/(\d+)(?:\/?$)", url): the trailing numeric path segment
extract_match_id_from_url(url) ==
  IF url[Len(url)][1] = "num" THEN url[Len(url)][2] ELSE NULL

\* lexicographic order of the keys used by the payloads
KeyRank == ("match_number" :> 1) @@ ("name" :> 2)

\* response bodies: JSON objects as key/value lists in the order received
Payloads == { << <<"match_number", 100>>, <<"name", 7>> >>,
              << <<"name", 7>>, <<"match_number", 100>> >>,
              << <<"name", 7>> >> }

\* a body on which resp.json() raises
BadJson == << <<"name", NULL>> >>

RECURSIVE InsertSorted(_, _)
InsertSorted(kv, doc) ==
  IF doc = <<>> THEN <<kv>>
  ELSE IF KeyRank[kv[1]] <= KeyRank[Head(doc)[1]] THEN <<kv>> \o doc
       ELSE <<Head(doc)>> \o InsertSorted(kv, Tail(doc))

RECURSIVE SortKeys(_)
SortKeys(doc) ==
  IF doc = <<>> THEN <<>> ELSE InsertSorted(Head(doc), SortKeys(Tail(doc)))

\* json.dumps(obj, sort_keys=True, separators=(",", ":"))
canonicalize_json(obj) == SortKeys(obj)

\* hashlib.sha256(...).hexdigest(), taken as collision free
Sha256(canonical) == <<"sha256", canonical>>

RECURSIVE DictGet(_, _)
DictGet(doc, key) ==
  IF doc = <<>> THEN NULL
  ELSE IF Head(doc)[1] = key THEN Head(doc)[2] ELSE DictGet(Tail(doc), key)

\* match_number of the payload when truthy, else the id of the URL
MatchNumberOf(payload_obj, url) ==
  LET m == DictGet(payload_obj, "match_number")
  IN IF m = NULL \/ m = 0 THEN extract_match_id_from_url(url) ELSE m

RECURSIVE SeqMax(_)
SeqMax(s) ==
  IF s = <<>> THEN NULL
  ELSE LET r == SeqMax(Tail(s))
       IN IF Head(s) > r THEN Head(s) ELSE r

\* SELECT MAX(match_number) FROM {resource} WHERE match_number IS NOT NULL
MaxMatch(rows) == SeqMax([i \in DOMAIN rows |-> rows[i].match_number])

\* does the table hold a row with this source_hash
HasHash(rows, h) == \E i \in DOMAIN rows : rows[i].source_hash = h

CountHash(rows, h) == Cardinality({i \in DOMAIN rows : rows[i].source_hash = h})

\* PERM_404_CONSECUTIVE and FUTURE_MARGIN defaults
perm_threshold == 5
future_margin == 10

\* first statement of update_url_status: insert the row or touch it
UrlStatusUpsert(us, resource, url, status_code) ==
  IF url \in DOMAIN us
  THEN [us EXCEPT ![url].last_checked = TS, ![url].last_status = status_code]
  ELSE us @@ (url :> [resource |-> resource,
                      match_id |-> extract_match_id_from_url(url),
                      last_checked |-> TS,
                      last_status |-> status_code,
                      consecutive_404 |-> 0,
                      first_404_at |-> NULL,
                      last_success_at |-> NULL,
                      permanent_404 |-> FALSE])

\* the success branch
SuccessRow_KeepsPermanent(row) ==
  [row EXCEPT !.last_success_at = TS, !.consecutive_404 = 0,
              !.first_404_at = NULL, !.last_status = 200]
SuccessRow(row) ==
  [row EXCEPT !.last_success_at = TS, !.consecutive_404 = 0,
              !.first_404_at = NULL, !.permanent_404 = FALSE,
              !.last_status = 200]

\* which failures count toward permanence
Is404_AnyError(status_code) == status_code >= 400
Is404(status_code) == status_code = 404

\* the permanence decision of the 404 branch
PermanentDecision_NoMargin(consecutive_404, max_match, match_id) ==
  consecutive_404 >= perm_threshold /\ max_match # NULL /\ match_id # NULL
  /\ match_id <= max_match
PermanentDecision(consecutive_404, max_match, match_id) ==
  consecutive_404 >= perm_threshold /\ max_match # NULL /\ match_id # NULL
  /\ match_id <= (max_match - future_margin)

\* the 404 branch; max_match is NULL when the lookup raised
NotFoundRow_NoCount(row, max_match, status_code) ==
  [row EXCEPT !.first_404_at = IF row.first_404_at = NULL THEN TS ELSE @,
              !.last_status = status_code]
NotFoundRow(row, max_match, status_code) ==
  LET c == row.consecutive_404 + 1
  IN [row EXCEPT !.consecutive_404 = c,
                 !.first_404_at = IF row.first_404_at = NULL THEN TS ELSE @,
                 !.permanent_404 = PermanentDecision(c, max_match, row.match_id),
                 !.last_status = status_code]

\* the branch for any other failure
OtherRow_AsSuccess(row, status_code) == SuccessRow(row)
OtherRow(row, status_code) == [row EXCEPT !.last_status = status_code]

\* update_url_status(conn, resource, url, status_code, success);
\* lookup_ok = FALSE: the SELECT MAX raises and is caught
update_url_status(us, tables, resource, url, status_code, success, lookup_ok) ==
  LET up == UrlStatusUpsert(us, resource, url, status_code)
      max_match == IF lookup_ok THEN MaxMatch(tables[resource]) ELSE NULL
  IN IF success THEN [up EXCEPT ![url] = SuccessRow(@)]
     ELSE IF Is404(status_code)
          THEN [up EXCEPT ![url] = NotFoundRow(@, max_match, status_code)]
          ELSE [up EXCEPT ![url] = OtherRow(@, status_code)]

\* a call whose first statement raises changes nothing (db_ok = FALSE)
TryUpdate(us, tables, resource, url, status_code, success, lookup_ok, db_ok) ==
  IF db_ok THEN update_url_status(us, tables, resource, url, status_code, success, lookup_ok)
  ELSE us

\* what http_get_with_backoff hands to ingest_endpoint: a status, or EXC when it raises
EXC == -2
HttpResults == {EXC, 200, 404, 429, 500}

\* the counter of a URL, 0 when it has no record
Consecutive(us, url) == IF url \in DOMAIN us THEN us[url].consecutive_404 ELSE 0

\* INSERT ... ON CONFLICT (source_hash) DO NOTHING RETURNING id
InsertRow_NoConflictClause(rows, row) == Append(rows, row)
InsertRow(rows, row) ==
  IF HasHash(rows, row.source_hash) THEN rows ELSE Append(rows, row)

OpRecord(op, table, url, status, success, body, insert_ok, lookup_ok, db_ok) ==
  [op |-> op, table |-> table, url |-> url, status |-> status, success |-> success,
   body |-> body, insert_ok |-> insert_ok, lookup_ok |-> lookup_ok, db_ok |-> db_ok]

NoOp == OpRecord("none", "none", <<>>, NULL, FALSE, <<>>, TRUE, TRUE, TRUE)

\* ingest_endpoint(conn, table, url)
IngestEndpoint(table, url, http, body, insert_ok, lookup_ok, db_ok) ==
  /\ (http = 404 => Consecutive(url_status, url) < Max404)
  /\ lastOp' = OpRecord("ingest_endpoint", table, url, http, FALSE, body, insert_ok, lookup_ok, db_ok)
  /\ IF http = EXC
     THEN /\ ret' = FALSE
          /\ UNCHANGED <<raw, url_status>>
     ELSE IF http # 200
     THEN /\ url_status' = TryUpdate(url_status, raw, table, url, http, FALSE, lookup_ok, db_ok)
          /\ ret' = FALSE
          /\ UNCHANGED raw
     ELSE IF body = BadJson
     THEN /\ ret' = FALSE
          /\ UNCHANGED <<raw, url_status>>
     ELSE IF ~insert_ok
     THEN /\ url_status' = TryUpdate(url_status, raw, table, url, NULL, FALSE, lookup_ok, db_ok)
          /\ ret' = FALSE
          /\ UNCHANGED raw
     ELSE LET canonical == canonicalize_json(body)
              source_hash == Sha256(canonical)
              row == [match_number |-> MatchNumberOf(body, url),
                      payload |-> canonical,
                      source |-> url,
                      source_hash |-> source_hash]
          IN /\ raw' = [raw EXCEPT ![table] = InsertRow(@, row)]
             /\ ret' = ~HasHash(raw[table], source_hash)
             /\ url_status' = TryUpdate(url_status, raw', table, url, 200, TRUE, lookup_ok, db_ok)

\* a direct call of update_url_status
UpdateUrlStatus(resource, url, status_code, success, lookup_ok) ==
  /\ (Is404(status_code) /\ ~success => Consecutive(url_status, url) < Max404)
  /\ lastOp' = OpRecord("update_url_status", resource, url, status_code, success, <<>>, TRUE, lookup_ok, TRUE)
  /\ url_status' = update_url_status(url_status, raw, resource, url, status_code, success, lookup_ok)
  /\ UNCHANGED <<raw, ret>>

InitIngest ==
  /\ raw = [t \in Tables |-> <<>>]
  /\ url_status = <<>>
  /\ ret = FALSE
  /\ lastOp = NoOp

(***************************************************************************)
(* src/src/ingest.py : http_get_with_backoff                               *)
(***************************************************************************)

VARIABLES h_pc, h_max_retries, h_attempt, h_resp, h_last_exc, h_outcomes, h_result

httpVars == <<h_pc, h_max_retries, h_attempt, h_resp, h_last_exc, h_outcomes, h_result>>

\* bound: max_retries of a call is drawn from 1..MaxRetries
MaxRetries == 3

\* requests.get raising Timeout, ConnectionError, or any other exception
TIMEOUT == -3
CONNERR == -4
OTHERERR == -5

\* the status codes a server answers with
Statuses == {200, 204, 301, 400, 404, 429, 499, 500, 503, 599, 600}

AttemptOutcomes == Statuses \cup {TIMEOUT, CONNERR, OTHERERR}

\* except (Timeout, ConnectionError)
CaughtException(outcome) == outcome \in {TIMEOUT, CONNERR}

\* resp.status_code == 429 or (500 <= resp.status_code < 600)
RetryStatus_Any4xx5xx(status_code) == status_code >= 400 /\ status_code < 600
RetryStatus(status_code) == status_code = 429 \/ (500 <= status_code /\ status_code < 600)

\* attempt >= max_retries
Exhausted(attempt, max_retries) == attempt >= max_retries

\* http_get_with_backoff(url, max_retries=...): entry
HttpCall(max_retries) ==
  /\ h_pc \in {"idle", "returned", "raised"}
  /\ h_pc' = "loop"
  /\ h_max_retries' = max_retries
  /\ h_attempt' = 0
  /\ h_last_exc' = NULL
  /\ h_resp' = NULL
  /\ h_outcomes' = <<>>
  /\ h_result' = NULL

\* one pass of the while loop: the request and what follows it up to the sleep
HttpAttempt(outcome) ==
  /\ h_pc = "loop"
  /\ h_attempt' = h_attempt + 1
  /\ h_outcomes' = Append(h_outcomes, outcome)
  /\ UNCHANGED h_max_retries
  /\ IF outcome = OTHERERR
     THEN \* not caught: leaves the function
          /\ h_pc' = "raised"
          /\ h_result' = outcome
          /\ UNCHANGED <<h_resp, h_last_exc>>
     ELSE LET resp == IF CaughtException(outcome) THEN NULL ELSE outcome
              last_exc == IF CaughtException(outcome) THEN outcome ELSE h_last_exc
              should_retry == CaughtException(outcome) \/ RetryStatus(outcome)
          IN /\ h_resp' = resp
             /\ h_last_exc' = last_exc
             /\ IF ~should_retry \/ Exhausted(h_attempt', h_max_retries)
                THEN IF resp # NULL
                     THEN h_pc' = "returned" /\ h_result' = resp
                     ELSE h_pc' = "raised" /\ h_result' = last_exc
                ELSE h_pc' = "sleep" /\ UNCHANGED h_result

\* time.sleep(sleep_for) returns
HttpSleepDone ==
  /\ h_pc = "sleep"
  /\ h_pc' = "loop"
  /\ UNCHANGED <<h_max_retries, h_attempt, h_resp, h_last_exc, h_outcomes, h_result>>

InitHttp ==
  /\ h_pc = "idle"
  /\ h_max_retries = 1
  /\ h_attempt = 0
  /\ h_resp = NULL
  /\ h_last_exc = NULL
  /\ h_outcomes = <<>>
  /\ h_result = NULL

(***************************************************************************)
(* src/scripts/bronze/threaded_team_ingest.py : ThreadedTeamIngester       *)
(***************************************************************************)

\* wall clock in seconds, read by time.time(); which ingester class the run uses
VARIABLES now, ingester

\* bounds of the runs: ids 1..NumTeams in chunks of BatchSize; the clock
\* advances in steps of TickStep, or to the end of a pending sleep, up to MaxTime
NumTeams == 5
BatchSize == 4
TickStep == 30
MaxTime == 130

TeamIds == 1..NumTeams

\* the window of the limiters and the wait base of check_rate_limit
WindowSecs == 60
WaitBase == 61

VARIABLES t_main, t_chunk, t_pc, t_wake, t_result, t_rate_lock, t_request_times, t_admitted,
          t_totals

threadedVars == <<t_main, t_chunk, t_pc, t_wake, t_result, t_rate_lock, t_request_times, t_admitted,
                  t_totals>>

\* total_processed, total_successful, total_not_found, total_errors
ZeroTotals == [processed |-> 0, successful |-> 0, not_found |-> 0, errors |-> 0]

\* one pass of the chunk loop over the results: successful_teams, chunk_not_found,
\* chunk_errors, then the totals; inserted is what insert_teams_batch returned
Tally(totals, ids, result, insert_ok) ==
  LET successful_teams == {id \in ids : result[id] = "OK"}
      chunk_not_found == Cardinality({id \in ids : result[id] = "NOT_FOUND"})
      chunk_errors == Cardinality({id \in ids : result[id] \notin {"OK", "NOT_FOUND"}})
      inserted == IF insert_ok THEN Cardinality(successful_teams) ELSE 0
  IN [processed |-> totals.processed + Cardinality(ids),
      successful |-> totals.successful + inserted,
      not_found |-> totals.not_found + chunk_not_found,
      errors |-> totals.errors + chunk_errors]

\* ThreadedTeamIngester(max_workers, rate_limit_per_minute)
max_workers == 2
rate_limit_per_minute == 2

\* [t for t in request_times if current_time - t < 60]
RECURSIVE Prune(_, _)
Prune(times, current_time) ==
  IF times = <<>> THEN <<>>
  ELSE IF current_time - Head(times) < WindowSecs
       THEN <<Head(times)>> \o Prune(Tail(times), current_time)
       ELSE Prune(Tail(times), current_time)

RECURSIVE SeqMin(_)
SeqMin(s) ==
  IF Len(s) = 1 THEN Head(s)
  ELSE LET r == SeqMin(Tail(s)) IN IF Head(s) < r THEN Head(s) ELSE r

\* len(self.request_times) >= self.rate_limit_per_minute
LimitReached_OffByOne(times) == Len(times) > rate_limit_per_minute
LimitReached(times) == Len(times) >= rate_limit_per_minute

\* wait_time = 61 - (current_time - oldest_request)
WaitTime(times, current_time) == WaitBase - (current_time - SeqMin(times))

\* range(chunk_start, chunk_end + 1)
ChunkIds(chunk_start) ==
  {id \in TeamIds : id >= chunk_start /\ id <= chunk_start + BatchSize - 1}

\* worker threads of the pool that are running fetch_team
Busy(pc) == {id \in TeamIds : pc[id] \in {"rate", "sleeping", "http"}}

\* tasks whose request is on the wire
InFlight(pc) == {id \in TeamIds : pc[id] = "http"}

\* executor.submit for every id of the chunk
ThreadedSubmit ==
  /\ t_main = "submit"
  /\ t_chunk <= NumTeams
  /\ t_pc' = [id \in TeamIds |-> IF id \in ChunkIds(t_chunk) THEN "queued" ELSE t_pc[id]]
  /\ t_main' = "collect"
  /\ UNCHANGED <<now, t_chunk, t_wake, t_result, t_rate_lock, t_request_times, t_admitted, t_totals>>

\* a free worker of ThreadPoolExecutor(max_workers) takes the next queued task
WorkerFree(pc) == Cardinality(Busy(pc)) < max_workers

ThreadedPick(id) ==
  /\ t_pc[id] = "queued"
  /\ \A other \in TeamIds : t_pc[other] = "queued" => id <= other
  /\ WorkerFree(t_pc)
  /\ t_pc' = [t_pc EXCEPT ![id] = "rate"]
  /\ UNCHANGED <<now, t_main, t_chunk, t_wake, t_result, t_rate_lock, t_request_times, t_admitted, t_totals>>

\* check_rate_limit up to the sleep, or to its end when there is no wait
ThreadedCheckRateLimit(id) ==
  /\ t_pc[id] = "rate"
  /\ t_rate_lock = 0
  /\ LET current_time == now
         pruned == Prune(t_request_times, current_time)
     IN IF LimitReached(pruned) /\ WaitTime(pruned, current_time) > 0
        THEN /\ t_rate_lock' = id
             /\ t_request_times' = pruned
             /\ t_wake' = [t_wake EXCEPT ![id] = now + WaitTime(pruned, current_time)]
             /\ t_pc' = [t_pc EXCEPT ![id] = "sleeping"]
             /\ UNCHANGED t_admitted
        ELSE /\ t_request_times' = Append(pruned, current_time)
             /\ t_admitted' = Append(t_admitted, current_time)
             /\ t_pc' = [t_pc EXCEPT ![id] = "http"]
             /\ UNCHANGED <<t_rate_lock, t_wake>>
  /\ UNCHANGED <<now, t_main, t_chunk, t_result, t_totals>>

\* check_rate_limit after time.sleep(wait_time): recheck, record, release the lock
ThreadedWake(id) ==
  /\ t_pc[id] = "sleeping"
  /\ now >= t_wake[id]
  /\ LET current_time == now
         pruned == Prune(t_request_times, current_time)
     IN /\ t_request_times' = Append(pruned, current_time)
        /\ t_admitted' = Append(t_admitted, current_time)
  /\ t_rate_lock' = 0
  /\ t_pc' = [t_pc EXCEPT ![id] = "http"]
  /\ UNCHANGED <<now, t_main, t_chunk, t_wake, t_result, t_totals>>

\* what fetch_team returns: data, NOT_FOUND, or another error string
FetchResults == {"OK", "NOT_FOUND", "ERROR"}

\* requests.get ends: 200, 404, 429, other status, timeout or exception
ThreadedHttpDone(id, result) ==
  /\ t_pc[id] = "http"
  /\ t_pc' = [t_pc EXCEPT ![id] = "done"]
  /\ t_result' = [t_result EXCEPT ![id] = result]
  /\ UNCHANGED <<now, t_main, t_chunk, t_wake, t_rate_lock, t_request_times, t_admitted, t_totals>>

\* the executor has shut down: tally, batch insert, time.sleep(1), next chunk
ThreadedChunkDone(insert_ok) ==
  /\ t_main = "collect"
  /\ \A id \in ChunkIds(t_chunk) : t_pc[id] = "done"
  /\ (\A id \in ChunkIds(t_chunk) : t_result[id] # "OK") => insert_ok
  /\ now + 1 <= MaxTime
  /\ now' = now + 1
  /\ t_totals' = Tally(t_totals, ChunkIds(t_chunk), t_result, insert_ok)
  /\ t_result' = [id \in TeamIds |-> "NONE"]
  /\ t_chunk' = t_chunk + BatchSize
  /\ t_main' = IF t_chunk + BatchSize <= NumTeams THEN "submit" ELSE "returned"
  /\ UNCHANGED <<t_pc, t_wake, t_rate_lock, t_request_times, t_admitted>>

\* time passes: by a step, or to the end of a sleep
ThreadedTick ==
  /\ \E next \in {now + TickStep} \cup {t_wake[id] : id \in {i \in TeamIds : t_pc[i] = "sleeping"}} :
       /\ next > now
       /\ next <= MaxTime
       /\ now' = next
  /\ UNCHANGED threadedVars

\* KeyboardInterrupt reaches the main thread inside the as_completed loop
ThreadedInterrupt ==
  /\ t_main = "collect"
  /\ t_main' = "interrupted"
  /\ UNCHANGED <<now, t_chunk, t_pc, t_wake, t_result, t_rate_lock, t_request_times, t_admitted, t_totals>>

\* the with block is left by the exception: ThreadPoolExecutor.__exit__ is
\* shutdown(wait=True), which returns when every submitted task has run; the
\* exception then leaves process_team_range before the tally and the insert
ThreadedShutdown ==
  /\ t_main = "interrupted"
  /\ \A id \in ChunkIds(t_chunk) : t_pc[id] = "done"
  /\ t_main' = "cancelled"
  /\ UNCHANGED <<now, t_chunk, t_pc, t_wake, t_result, t_rate_lock, t_request_times, t_admitted, t_totals>>

InitThreaded ==
  /\ t_main = "submit"
  /\ t_chunk = 1
  /\ t_pc = [id \in TeamIds |-> "idle"]
  /\ t_wake = [id \in TeamIds |-> 0]
  /\ t_result = [id \in TeamIds |-> "NONE"]
  /\ t_rate_lock = 0
  /\ t_request_times = <<>>
  /\ t_admitted = <<>>
  /\ t_totals = ZeroTotals

(***************************************************************************)
(* src/scripts/bronze/concurrent_team_ingest.py : ConcurrentTeamIngester   *)
(***************************************************************************)

VARIABLES a_main, a_chunk, a_pc, a_result, a_semaphore, a_rate_limiter, a_held,
          a_request_times, a_admitted, a_reset_at, a_reset_alive, a_totals

asyncVars == <<a_main, a_chunk, a_pc, a_result, a_semaphore, a_rate_limiter, a_held,
               a_request_times, a_admitted, a_reset_at, a_reset_alive, a_totals>>

\* ConcurrentTeamIngester(max_concurrent, rate_limit_per_minute)
max_concurrent == 2
a_rate_limit_per_minute == 1

\* self.rate_limiter: every Semaphore object created so far with its value;
\* the attribute refers to the last one
CurrentLimiter(limiters) == Len(limiters)

\* tasks holding a permit of self.semaphore
SemHolders(pc) == {id \in TeamIds : pc[id] \in {"wait_rate", "http"}}

\* tasks whose request is on the wire
AsyncInFlight(pc) == {id \in TeamIds : pc[id] = "http"}

\* tasks = [self.fetch_team_async(session, team_id) for team_id in chunk_ids]; gather
AsyncGather ==
  /\ a_main = "create"
  /\ a_chunk <= NumTeams
  /\ a_pc' = [id \in TeamIds |-> IF id \in ChunkIds(a_chunk) THEN "start" ELSE a_pc[id]]
  /\ a_main' = "gather"
  /\ UNCHANGED <<now, a_chunk, a_result, a_semaphore, a_rate_limiter, a_held,
                 a_request_times, a_admitted, a_reset_at, a_reset_alive, a_totals>>

\* async with self.rate_limiter, entered by a task that holds self.semaphore:
\* take a permit of the current object and record the start, or wait on that object
EnterRateLimiter(id) ==
  LET g == CurrentLimiter(a_rate_limiter)
  IN /\ a_held' = [a_held EXCEPT ![id] = g]
     /\ IF a_rate_limiter[g] > 0
        THEN /\ a_rate_limiter' = [a_rate_limiter EXCEPT ![g] = @ - 1]
             /\ a_request_times' = Append(a_request_times, now)
             /\ a_admitted' = Append(a_admitted, now)
             /\ a_pc' = [a_pc EXCEPT ![id] = "http"]
        ELSE /\ a_pc' = [a_pc EXCEPT ![id] = "wait_rate"]
             /\ UNCHANGED <<a_rate_limiter, a_request_times, a_admitted>>

\* fetch_team_async starts: async with self.semaphore
AsyncEnter(id) ==
  /\ a_pc[id] = "start"
  /\ IF a_semaphore > 0
     THEN /\ a_semaphore' = a_semaphore - 1
          /\ EnterRateLimiter(id)
     ELSE /\ a_pc' = [a_pc EXCEPT ![id] = "wait_sem"]
          /\ UNCHANGED <<a_semaphore, a_rate_limiter, a_held, a_request_times, a_admitted>>
  /\ UNCHANGED <<now, a_main, a_chunk, a_result, a_reset_at, a_reset_alive, a_totals>>

\* a waiter of self.semaphore gets a permit
AsyncSemWake(id) ==
  /\ a_pc[id] = "wait_sem"
  /\ a_semaphore > 0
  /\ a_semaphore' = a_semaphore - 1
  /\ EnterRateLimiter(id)
  /\ UNCHANGED <<now, a_main, a_chunk, a_result, a_reset_at, a_reset_alive, a_totals>>

\* a waiter of a rate limiter object gets a permit of that object
AsyncRateWake(id) ==
  /\ a_pc[id] = "wait_rate"
  /\ a_rate_limiter[a_held[id]] > 0
  /\ a_rate_limiter' = [a_rate_limiter EXCEPT ![a_held[id]] = @ - 1]
  /\ a_request_times' = Append(a_request_times, now)
  /\ a_admitted' = Append(a_admitted, now)
  /\ a_pc' = [a_pc EXCEPT ![id] = "http"]
  /\ UNCHANGED <<now, a_main, a_chunk, a_result, a_semaphore, a_held, a_reset_at, a_reset_alive, a_totals>>

\* which outcomes give the permit of self.semaphore back
ReleasesSemaphore_OnlyOnData(result) == result = "OK"
ReleasesSemaphore(result) == TRUE

\* session.get ends (200, 404, 429, other status, timeout, exception): both
\* async with blocks are left
AsyncHttpDone(id, result) ==
  /\ a_pc[id] = "http"
  /\ a_rate_limiter' = [a_rate_limiter EXCEPT ![a_held[id]] = @ + 1]
  /\ a_semaphore' = IF ReleasesSemaphore(result) THEN a_semaphore + 1 ELSE a_semaphore
  /\ a_pc' = [a_pc EXCEPT ![id] = "done"]
  /\ a_result' = [a_result EXCEPT ![id] = result]
  /\ UNCHANGED <<now, a_main, a_chunk, a_held, a_request_times, a_admitted, a_reset_at, a_reset_alive, a_totals>>

\* rate_limit_reset after asyncio.sleep(60): a new Semaphore replaces the old one
AsyncRateLimitReset ==
  /\ a_reset_alive
  /\ now >= a_reset_at
  /\ LET current_time == now
         pruned == Prune(a_request_times, current_time)
         used_permits == Len(pruned)
         available_permits == IF a_rate_limit_per_minute - used_permits > 0
                              THEN a_rate_limit_per_minute - used_permits ELSE 0
     IN /\ a_request_times' = pruned
        /\ a_rate_limiter' = Append(a_rate_limiter, available_permits)
  /\ a_reset_at' = now + WindowSecs
  /\ UNCHANGED <<now, a_main, a_chunk, a_pc, a_result, a_semaphore, a_held, a_admitted, a_reset_alive, a_totals>>

\* gather returns: tally, batch insert, asyncio.sleep(1), next chunk; after the
\* last chunk the reset task is cancelled
AsyncChunkDone(insert_ok) ==
  /\ a_main = "gather"
  /\ \A id \in ChunkIds(a_chunk) : a_pc[id] = "done"
  /\ (\A id \in ChunkIds(a_chunk) : a_result[id] # "OK") => insert_ok
  /\ now + 1 <= MaxTime
  /\ now' = now + 1
  /\ a_totals' = Tally(a_totals, ChunkIds(a_chunk), a_result, insert_ok)
  /\ a_result' = [id \in TeamIds |-> "NONE"]
  /\ a_chunk' = a_chunk + BatchSize
  /\ a_main' = IF a_chunk + BatchSize <= NumTeams THEN "create" ELSE "returned"
  /\ a_reset_alive' = (a_chunk + BatchSize <= NumTeams)
  /\ UNCHANGED <<a_pc, a_semaphore, a_rate_limiter, a_held,
                 a_request_times, a_admitted, a_reset_at>>

\* a task the event loop can run at once
Ready(id) ==
  \/ a_pc[id] = "start"
  \/ a_pc[id] = "wait_sem" /\ a_semaphore > 0
  \/ a_pc[id] = "wait_rate" /\ a_rate_limiter[a_held[id]] > 0

\* time passes while the loop has nothing to run: no task is ready, the main
\* coroutine is inside gather, and the reset task is still in its sleep
AsyncTick ==
  /\ a_main = "gather"
  /\ \E id \in ChunkIds(a_chunk) : a_pc[id] # "done"
  /\ \A id \in TeamIds : ~Ready(id)
  /\ ~(a_reset_alive /\ now >= a_reset_at)
  /\ now + TickStep <= MaxTime
  /\ now' = now + TickStep
  /\ UNCHANGED asyncVars

InitAsync ==
  /\ a_main = "create"
  /\ a_chunk = 1
  /\ a_pc = [id \in TeamIds |-> "idle"]
  /\ a_result = [id \in TeamIds |-> "NONE"]
  /\ a_semaphore = max_concurrent
  /\ a_rate_limiter = <<a_rate_limit_per_minute>>
  /\ a_held = [id \in TeamIds |-> 0]
  /\ a_request_times = <<>>
  /\ a_admitted = <<>>
  /\ a_reset_at = WindowSecs
  /\ a_reset_alive = TRUE
  /\ a_totals = ZeroTotals

(***************************************************************************)
(* src/scripts/ingest_all_matches.py : ingest_range_for_url                *)
(***************************************************************************)

VARIABLES server, r_pc, r_mid, r_tried, r_inserted, r_requests, r_log, r_clean, r_fresh, r_faults, r_stops

rangeVars == <<server, r_pc, r_mid, r_tried, r_inserted, r_requests, r_log, r_clean, r_fresh, r_faults, r_stops>>

\* bounds: the range [RangeLo, RangeHi] handed to ingest_range_for_url
RangeLo == 1
RangeHi == 3

RangeIds == RangeLo..RangeHi

\* bounds: how many ids meet a fault, and how often the operator stops a run
MaxFaults == 1
MaxStops == 1

RangeTable == "raw_scoreboard"

\* url_template.format(mid)
RangeUrl(mid) == << <<"txt", "sasp-scoreboard">>, <<"num", mid>> >>

\* what the server answers for an id, the same at every request: 404, or 200
\* with a body that no other id answers
AnswerKinds == {"404", "own"}

Servers == [RangeIds -> AnswerKinds]

OwnBody(mid) == << <<"match_number", 100 + mid>>, <<"name", mid>> >>

StatusOf(kind) == IF kind = "404" THEN 404 ELSE 200

\* is_permanent_404(conn, resource, url)
is_permanent_404(us, url) == url \in DOMAIN us /\ us[url].permanent_404

\* what can go wrong while one id is handled: nothing, the permanence check
\* raises, the request raises, the body is not JSON, the INSERT raises, the
\* SELECT MAX raises, the health update raises, or the connection is closed
Faults == {"none", "check", "transport", "json", "insert", "lookup", "update", "conn"}

\* whether the loop passes over the id
SkipTarget_Never(us, url, fault) == FALSE
SkipTarget_AnyRecord(us, url, fault) == url \in DOMAIN us
SkipTarget(us, url, fault) == fault \notin {"check", "conn"} /\ is_permanent_404(us, url)

\* conn.cursor() of ingest_endpoint raises outside every try block
CursorRaises(fault, http, body) == fault = "conn" /\ http = 200 /\ body # BadJson

\* the faults the handling of this id can meet
FaultApplies(fault, status) ==
  \/ fault \in {"none", "check", "transport", "conn", "update"}
  \/ fault \in {"json", "insert"} /\ status = 200
  \/ fault = "lookup" /\ status = 404

\* ingest_range_for_url(conn, table, url_template, start, end): entry
RangeStart ==
  /\ r_pc \in {"idle", "done", "stopped", "aborted"}
  /\ r_pc' = "loop"
  /\ r_mid' = RangeLo
  /\ r_tried' = 0
  /\ r_inserted' = 0
  /\ r_requests' = 0
  /\ r_log' = [mid |-> 0, did |-> "start", fault |-> "none"]
  /\ r_clean' = TRUE
  /\ r_fresh' = (url_status = <<>> /\ \A t \in Tables : raw[t] = <<>>)
  /\ UNCHANGED <<server, r_faults, r_stops, ingestVars>>

\* one pass of the for loop
RangeStep(fault) ==
  /\ r_pc = "loop"
  /\ LET url == RangeUrl(r_mid)
         kind == server[r_mid]
         http == IF fault = "transport" THEN EXC ELSE StatusOf(kind)
         body == IF http = 200 /\ fault # "json" THEN OwnBody(r_mid) ELSE BadJson
         next_pc == IF r_mid = RangeHi THEN "done" ELSE "loop"
     IN /\ UNCHANGED <<server, r_fresh, r_stops>>
        /\ fault # "none" => r_faults < MaxFaults
        /\ r_faults' = r_faults + (IF fault = "none" THEN 0 ELSE 1)
        /\ r_clean' = (r_clean /\ fault = "none")
        /\ IF SkipTarget(url_status, url, fault)
           THEN /\ fault = "none"
                /\ r_log' = [mid |-> r_mid, did |-> "skipped", fault |-> fault]
                /\ r_mid' = r_mid + 1
                /\ r_pc' = next_pc
                /\ UNCHANGED <<r_tried, r_inserted, r_requests, ingestVars>>
           ELSE /\ FaultApplies(fault, StatusOf(kind))
                /\ r_tried' = r_tried + 1
                /\ r_requests' = r_requests + 1
                /\ IF CursorRaises(fault, http, body)
                   THEN /\ r_log' = [mid |-> r_mid, did |-> "raised", fault |-> fault]
                        /\ r_pc' = "aborted"
                        /\ UNCHANGED <<r_mid, r_inserted, ingestVars>>
                   ELSE /\ IngestEndpoint(RangeTable, url, http, body,
                                          fault # "insert", fault # "lookup",
                                          fault \notin {"update", "conn"})
                        /\ r_inserted' = r_inserted + (IF ret' THEN 1 ELSE 0)
                        /\ r_log' = [mid |-> r_mid, did |-> "ingested", fault |-> fault]
                        /\ r_mid' = r_mid + 1
                        /\ r_pc' = next_pc

\* the operator stops the process between two ids
RangeInterrupt ==
  /\ r_pc = "loop"
  /\ r_stops < MaxStops
  /\ r_stops' = r_stops + 1
  /\ r_pc' = "stopped"
  /\ r_log' = [mid |-> r_mid, did |-> "interrupted", fault |-> "none"]
  /\ UNCHANGED <<server, r_mid, r_tried, r_inserted, r_requests, r_clean, r_fresh, r_faults, ingestVars>>

InitRange ==
  /\ server = [mid \in RangeIds |-> "404"]
  /\ r_pc = "idle"
  /\ r_mid = RangeLo
  /\ r_tried = 0
  /\ r_inserted = 0
  /\ r_requests = 0
  /\ r_log = [mid |-> 0, did |-> "start", fault |-> "none"]
  /\ r_clean = TRUE
  /\ r_fresh = TRUE
  /\ r_faults = 0
  /\ r_stops = 0

(***************************************************************************)
(* src/scripts/bronze : batched orchestrators on one transaction           *)
(* (ingest_all_teams, concurrent_competition_ingest,                       *)
(* concurrent_scoreboard_ingest)                                           *)
(***************************************************************************)

VARIABLES b_kind, b_pc, b_item, b_staged, b_committed, b_inserted, b_count, b_tx, b_end

batchVars == <<b_kind, b_pc, b_item, b_staged, b_committed, b_inserted, b_count, b_tx, b_end>>

Orchestrators == {"ingest_all_teams", "concurrent_competition_ingest", "concurrent_scoreboard_ingest"}

\* bounds: the items of a run, BATCH_COMMIT_SIZE of ingest_all_teams, and the
\* batch size of concurrent_scoreboard_ingest
BatchItems == 4
BatchCommitSize == 2
ScoreBatchSize == 2

\* what handling one item does: a row is inserted, nothing is inserted
\* (not found, duplicate, fetch failed), or the INSERT raises
ItemOutcomes == {"stored", "none", "failed"}

\* conn.commit(): the rows staged in the transaction become durable, unless a
\* statement of the transaction failed, in which case it is rolled back
Commit(tx, staged, committed) == IF tx = "ok" THEN committed \cup staged ELSE committed

\* conn.close() with an open transaction rolls it back
Close(committed) == committed

\* what the except KeyboardInterrupt / finally blocks of main leave durable
OnInterrupt(kind, tx, staged, committed) ==
  IF kind = "ingest_all_teams" THEN Commit(tx, staged, committed) ELSE Close(committed)

\* the commit the loop makes after handling an item
CommitsAfter(kind, item, count) ==
  CASE kind = "ingest_all_teams" -> count >= BatchCommitSize
    [] kind = "concurrent_scoreboard_ingest" -> item % ScoreBatchSize = 0
    [] OTHER -> FALSE

\* one item of the loop of main
BatchStep(outcome) ==
  /\ b_pc = "run"
  /\ b_item <= BatchItems
  /\ UNCHANGED b_kind
  /\ IF b_kind = "ingest_all_teams" /\ b_tx = "aborted"
     THEN \* the SELECT before the fetch raises; finally: commit, close
          /\ outcome = "none"
          /\ b_committed' = Commit(b_tx, b_staged, b_committed)
          /\ b_staged' = {}
          /\ b_pc' = "closed"
          /\ b_end' = "error"
          /\ UNCHANGED <<b_item, b_inserted, b_count, b_tx>>
     ELSE LET stores == outcome = "stored" /\ b_tx = "ok"
              staged == IF stores THEN b_staged \cup {b_item} ELSE b_staged
              count == IF stores THEN b_count + 1 ELSE b_count
              tx == IF outcome = "none" THEN b_tx ELSE IF stores THEN "ok" ELSE "aborted"
              commits == IF b_kind = "ingest_all_teams"
                         THEN stores /\ CommitsAfter(b_kind, b_item, count)
                         ELSE CommitsAfter(b_kind, b_item, count)
          IN /\ b_inserted' = IF stores THEN b_inserted \cup {b_item} ELSE b_inserted
             /\ b_item' = b_item + 1
             /\ IF commits
                THEN /\ b_committed' = Commit(tx, staged, b_committed)
                     /\ b_staged' = {}
                     /\ b_count' = 0
                     /\ b_tx' = "ok"
                ELSE /\ b_staged' = staged
                     /\ b_count' = count
                     /\ b_tx' = tx
                     /\ UNCHANGED b_committed
             /\ UNCHANGED <<b_pc, b_end>>

\* the loop is over: the final commit, then conn.close()
BatchFinish ==
  /\ b_pc = "run"
  /\ b_item > BatchItems
  /\ b_committed' = Commit(b_tx, b_staged, b_committed)
  /\ b_staged' = {}
  /\ b_pc' = "closed"
  /\ b_end' = "finished"
  /\ UNCHANGED <<b_kind, b_item, b_inserted, b_count, b_tx>>

\* KeyboardInterrupt while the loop runs
BatchInterrupt ==
  /\ b_pc = "run"
  /\ b_item <= BatchItems
  /\ b_committed' = OnInterrupt(b_kind, b_tx, b_staged, b_committed)
  /\ b_staged' = {}
  /\ b_pc' = "closed"
  /\ b_end' = "interrupted"
  /\ UNCHANGED <<b_kind, b_item, b_inserted, b_count, b_tx>>

InitBatchOf(kinds) ==
  /\ b_kind \in kinds
  /\ b_pc = "run"
  /\ b_item = 1
  /\ b_staged = {}
  /\ b_committed = {}
  /\ b_inserted = {}
  /\ b_count = 0
  /\ b_tx = "ok"
  /\ b_end = "none"

InitBatch == InitBatchOf({"ingest_all_teams"})

(***************************************************************************)
(* Workers storing into one table at the same time                         *)
(* (ingest_endpoint on autocommit connections; insert_scoreboard_data on   *)
(* one shared connection)                                                  *)
(***************************************************************************)

VARIABLES c_mode, c_pc, c_body, c_obs, c_table, c_pending

storeVars == <<c_mode, c_pc, c_body, c_obs, c_table, c_pending>>

\* bound: the workers that store at the same time
NumStoreWorkers == 2

StoreWorkers == 1..NumStoreWorkers

\* each worker on its own autocommit connection (get_db_conn), or all workers
\* on the one connection handed to process_scoreboard_batch
StoreModes == {"own_connection", "shared_connection"}

HashOf(body) == Sha256(canonicalize_json(body))

\* the unique index on source_hash: a committed row with this hash, or a row
\* with this hash written by a statement of the worker's own transaction
ConflictsCommitted(table, h) == \E i \in DOMAIN table : table[i].source_hash = h

\* a row with this hash written by another transaction that has not ended
ConflictsPending_Ignored(pending, w, h) == FALSE
ConflictsPending(pending, w, h) == \E v \in StoreWorkers \ {w} : pending[v] = h

\* a worker has fetched a body and is about to execute its INSERT
StoreFetch(w, body) ==
  /\ c_pc[w] = "idle"
  /\ c_pc' = [c_pc EXCEPT ![w] = "insert"]
  /\ c_body' = [c_body EXCEPT ![w] = body]
  /\ UNCHANGED <<c_mode, c_obs, c_table, c_pending>>

\* INSERT ... ON CONFLICT (source_hash) DO NOTHING RETURNING id
StoreInsert(w) ==
  /\ c_pc[w] = "insert"
  /\ LET h == HashOf(c_body[w])
     IN IF ConflictsCommitted(c_table, h)
        THEN \* DO NOTHING: no row returned
             /\ c_obs' = [c_obs EXCEPT ![w] = "false"]
             /\ c_pc' = [c_pc EXCEPT ![w] = "done"]
             /\ UNCHANGED <<c_table, c_pending>>
        ELSE IF c_mode = "shared_connection"
        THEN \* statements of one connection run one at a time in one transaction
             /\ c_table' = Append(c_table, [source_hash |-> h, by |-> w])
             /\ c_obs' = [c_obs EXCEPT ![w] = "true"]
             /\ c_pc' = [c_pc EXCEPT ![w] = "done"]
             /\ UNCHANGED c_pending
        ELSE IF ConflictsPending(c_pending, w, h)
        THEN \* wait for the other transaction to end
             /\ c_pc' = [c_pc EXCEPT ![w] = "wait"]
             /\ c_obs' = [c_obs EXCEPT ![w] = "waited"]
             /\ UNCHANGED <<c_table, c_pending>>
        ELSE /\ c_pending' = [c_pending EXCEPT ![w] = h]
             /\ c_pc' = [c_pc EXCEPT ![w] = "written"]
             /\ UNCHANGED <<c_obs, c_table>>
  /\ UNCHANGED <<c_mode, c_body>>

\* the statement ends and autocommit makes its row durable; fetchone() returns the id
StoreCommit(w) ==
  /\ c_pc[w] = "written"
  /\ c_table' = Append(c_table, [source_hash |-> c_pending[w], by |-> w])
  /\ c_pending' = [c_pending EXCEPT ![w] = <<>>]
  /\ c_obs' = [c_obs EXCEPT ![w] = "true"]
  /\ c_pc' = [c_pc EXCEPT ![w] = "done"]
  /\ UNCHANGED <<c_mode, c_body>>

\* the transaction waited for has ended: the statement looks at the index again
StoreRecheck(w) ==
  /\ c_pc[w] = "wait"
  /\ ~ConflictsPending(c_pending, w, HashOf(c_body[w]))
  /\ c_pc' = [c_pc EXCEPT ![w] = "insert"]
  /\ UNCHANGED <<c_mode, c_body, c_obs, c_table, c_pending>>

InitStoreOf(modes) ==
  /\ c_mode \in modes
  /\ c_pc = [w \in StoreWorkers |-> "idle"]
  /\ c_body = [w \in StoreWorkers |-> <<>>]
  /\ c_obs = [w \in StoreWorkers |-> "none"]
  /\ c_table = <<>>
  /\ c_pending = [w \in StoreWorkers |-> <<>>]

InitConcurrentStore == InitStoreOf({"own_connection"})

(***************************************************************************)
(* update_url_status called by several workers for one URL, statement by   *)
(* statement; every connection is in autocommit mode, so each statement is *)
(* one transaction                                                         *)
(***************************************************************************)

VARIABLES u_pc, u_call, u_read, u_max, u_start

updVars == <<u_pc, u_call, u_read, u_max, u_start>>

NumUpdaters == 2
Updaters == 1..NumUpdaters

\* consecutive 404 answers the URL has had before the concurrent calls
StartMisses == 4

UpdResource == "raw_scoreboard"
UpdUrl == << <<"txt", "sasp-scoreboard">>, <<"num", 50>> >>

\* the outcomes update_url_status is called with: (status_code, success)
CallKinds == {"success", "404", "other"}
CallStatus(kind) == IF kind = "success" THEN 200 ELSE IF kind = "404" THEN 404 ELSE 500
CallSuccess(kind) == kind = "success"

\* res = cur.fetchone() of the upsert: the values the call keeps in locals
Returning(row) ==
  [consecutive_404 |-> row.consecutive_404, first_404_at |-> row.first_404_at]

\* where the call goes after the upsert
AfterUpsert(kind, res) ==
  IF CallSuccess(kind) THEN "success"
  ELSE IF Is404(CallStatus(kind))
       THEN (IF res.first_404_at = NULL THEN "first_404" ELSE "select_max")
       ELSE "other"

\* INSERT ... ON CONFLICT (url) DO UPDATE ... RETURNING
ConcUpsert(w, kind) ==
  /\ u_pc[w] = "idle"
  /\ url_status' = UrlStatusUpsert(url_status, UpdResource, UpdUrl, CallStatus(kind))
  /\ u_call' = [u_call EXCEPT ![w] = kind]
  /\ u_read' = [u_read EXCEPT ![w] = Returning(url_status'[UpdUrl])]
  /\ u_pc' = [u_pc EXCEPT ![w] = AfterUpsert(kind, Returning(url_status'[UpdUrl]))]
  /\ UNCHANGED <<raw, ret, lastOp, u_max, u_start>>

\* UPDATE url_status SET last_success_at = now(), consecutive_404 = 0, ...
ConcSuccess(w) ==
  /\ u_pc[w] = "success"
  /\ url_status' = [url_status EXCEPT ![UpdUrl] = SuccessRow(@)]
  /\ u_pc' = [u_pc EXCEPT ![w] = "done"]
  /\ UNCHANGED <<raw, ret, lastOp, u_call, u_read, u_max, u_start>>

\* UPDATE url_status SET first_404_at = now()
ConcFirst404(w) ==
  /\ u_pc[w] = "first_404"
  /\ url_status' = [url_status EXCEPT ![UpdUrl].first_404_at = TS]
  /\ u_pc' = [u_pc EXCEPT ![w] = "select_max"]
  /\ UNCHANGED <<raw, ret, lastOp, u_call, u_read, u_max, u_start>>

\* SELECT MAX(match_number); lookup_ok = FALSE: it raises and is caught
ConcSelectMax(w, lookup_ok) ==
  /\ u_pc[w] = "select_max"
  /\ u_max' = [u_max EXCEPT ![w] = IF lookup_ok THEN MaxMatch(raw[UpdResource]) ELSE NULL]
  /\ u_pc' = [u_pc EXCEPT ![w] = "write_404"]
  /\ UNCHANGED <<ingestVars, u_call, u_read, u_start>>

\* UPDATE url_status SET consecutive_404 = %s, permanent_404 = %s, last_status = %s
\* with the counter computed from the value the upsert returned
Write404Counter(row, res) == res.consecutive_404 + 1

ConcWrite404(w) ==
  /\ u_pc[w] = "write_404"
  /\ LET c == Write404Counter(url_status[UpdUrl], u_read[w])
     IN url_status' = [url_status EXCEPT
                         ![UpdUrl].consecutive_404 = c,
                         ![UpdUrl].permanent_404 =
                            PermanentDecision(c, u_max[w], extract_match_id_from_url(UpdUrl)),
                         ![UpdUrl].last_status = CallStatus(u_call[w])]
  /\ u_pc' = [u_pc EXCEPT ![w] = "done"]
  /\ UNCHANGED <<raw, ret, lastOp, u_call, u_read, u_max, u_start>>

\* UPDATE url_status SET last_status = %s
ConcOther(w) ==
  /\ u_pc[w] = "other"
  /\ url_status' = [url_status EXCEPT ![UpdUrl] = OtherRow(@, CallStatus(u_call[w]))]
  /\ u_pc' = [u_pc EXCEPT ![w] = "done"]
  /\ UNCHANGED <<raw, ret, lastOp, u_call, u_read, u_max, u_start>>

InitUpd ==
  /\ u_pc = [w \in Updaters |-> "idle"]
  /\ u_call = [w \in Updaters |-> "none"]
  /\ u_read = [w \in Updaters |-> [consecutive_404 |-> 0, first_404_at |-> NULL]]
  /\ u_max = [w \in Updaters |-> NULL]
  /\ u_start = <<>>

(***************************************************************************)
(* src/src/ingest.py : canonicalize_json on nested documents               *)
(***************************************************************************)

VARIABLES k_pc, k_a, k_b, k_canon

canonVars == <<k_pc, k_a, k_b, k_canon>>

\* bounds of the documents: members counted over all levels, numbers 1..MaxNum
MaxMembers == 3
MaxNum == 2

\* JSON values: a number <<"num", n>> or an object <<"obj", members>>, the
\* members a list of <<key, value>> in the order the parser met them
DocKeys == {"match_number", "name"}
Leaves == {<<"num", n>> : n \in 1..MaxNum}

RECURSIVE ObjectsOfSize(_)
ValuesOfSize(n) == (IF n = 0 THEN Leaves ELSE {}) \cup ObjectsOfSize(n)
ObjectsOfSize(n) ==
  IF n = 0 THEN { <<"obj", <<>> >> }
  ELSE { <<"obj", << <<k, v>> >> >> : k \in DocKeys, v \in ValuesOfSize(n - 1) }
       \cup UNION { { <<"obj", << <<kk[1], v1>>, <<kk[2], v2>> >> >> :
                        kk \in {p \in DocKeys \X DocKeys : p[1] # p[2]},
                        v1 \in ValuesOfSize(i), v2 \in ValuesOfSize(n - 2 - i) }
                    : i \in 0..(n - 2) }

Documents == UNION { ObjectsOfSize(n) : n \in 0..MaxMembers }

\* a response body: the document it spells, and whether its text carries
\* whitespace between the tokens
Bodies == [doc : Documents, spaced : BOOLEAN]
CompactBodies == [doc : Documents, spaced : {FALSE}]

\* resp.json(): whitespace between tokens is not part of the value
resp_json(body) == body.doc

\* sort_keys=True: the members of every object in key order
SortedMembers_AsReceived(members) == members
SortedMembers(members) == SortKeys(members)

\* json.dumps(obj, sort_keys=True, separators=(",", ":")), as the list of the
\* tokens of the string
RECURSIVE json_dumps(_)
RECURSIVE DumpMembers(_)
DumpMembers(members) ==
  IF members = <<>> THEN <<>>
  ELSE << "\"" \o Head(members)[1] \o "\"", ":" >> \o json_dumps(Head(members)[2])
       \o (IF Tail(members) = <<>> THEN <<>> ELSE <<",">> \o DumpMembers(Tail(members)))
json_dumps(v) ==
  IF v[1] = "num" THEN << ToString(v[2]) >>
  ELSE <<"{">> \o DumpMembers(SortedMembers(v[2])) \o <<"}">>

\* payload_obj = resp.json(); canonical = canonicalize_json(payload_obj);
\* source_hash = sha256(canonical), for two bodies
Canonicalize ==
  /\ k_pc = "received"
  /\ k_canon' = << json_dumps(resp_json(k_a)), json_dumps(resp_json(k_b)) >>
  /\ k_pc' = "hashed"
  /\ UNCHANGED <<k_a, k_b>>

InitCanonOf(compact, bodies) ==
  /\ k_pc = "received"
  /\ k_a \in compact
  /\ k_b \in bodies
  /\ k_canon = << <<>>, <<>> >>

EmptyBody == [doc |-> <<"obj", <<>> >>, spaced |-> FALSE]

InitCanon == InitCanonOf({EmptyBody}, {EmptyBody})

(***************************************************************************)
(* The writers of raw_teams and raw_scoreboard outside ingest_endpoint:    *)
(* ingest_all_teams.insert_team, ThreadedTeamIngester.insert_teams_batch,  *)
(* concurrent_scoreboard_ingest.insert_scoreboard_data                     *)
(***************************************************************************)

VARIABLES raw_teams, w_ret

writerVars == <<raw_teams, w_ret>>

\* bound: the team ids written
MaxWriterId == 2

WriterIds == 1..MaxWriterId

\* hashlib.md5(json.dumps(team_data, sort_keys=True).encode()).hexdigest()
Md5(text) == <<"md5", text>>
TeamMd5(team_data) == Md5(SortKeys(team_data))

\* source_hash = f"team_{team_id}"
TeamTag(team_id) == <<"team", << <<"team_id", team_id>> >> >>

\* raw_teams is held as the set of its rows; the rows with a given id / a
\* given source_hash
RowsWithId(rows, id) == {r \in rows : r.id = id}
RowsWithHash(rows, h) == {r \in rows : r.source_hash = h}

\* INSERT INTO raw_teams (id, ...) ... ON CONFLICT (id) DO UPDATE SET payload,
\* source, source_hash; the statement raises when the source_hash it writes is
\* held by another row
InsertTeamRaises(rows, api_team_id, team_data) ==
  \E r \in RowsWithHash(rows, TeamMd5(team_data)) : r.id # api_team_id

InsertTeamRows(rows, api_team_id, team_data) ==
  LET row == [id |-> api_team_id, payload |-> team_data,
              source |-> <<"teams", api_team_id>>, source_hash |-> TeamMd5(team_data)]
  IN (rows \ RowsWithId(rows, api_team_id)) \cup {row}

\* insert_team(conn, api_team_id, team_data)
insert_team(api_team_id, team_data, db_ok) ==
  /\ IF db_ok /\ ~InsertTeamRaises(raw_teams, api_team_id, team_data)
     THEN /\ raw_teams' = InsertTeamRows(raw_teams, api_team_id, team_data)
          /\ w_ret' = 1
     ELSE /\ w_ret' = 0
          /\ UNCHANGED raw_teams
  /\ UNCHANGED raw

\* one statement of executemany: INSERT INTO raw_teams (payload, source,
\* source_hash, ingested_at) ... ON CONFLICT (source_hash) DO UPDATE SET payload;
\* the id is generated and is none of the team ids (NULL here)
BatchStatement(rows, team_id, team_data) ==
  LET row == [id |-> NULL, payload |-> team_data,
              source |-> <<"teams_api", team_id>>, source_hash |-> TeamTag(team_id)]
  IN (rows \ RowsWithHash(rows, TeamTag(team_id))) \cup {row}

RECURSIVE ExecuteMany(_, _)
ExecuteMany(rows, teams_data) ==
  IF teams_data = <<>> THEN rows
  ELSE ExecuteMany(BatchStatement(rows, Head(teams_data)[1], Head(teams_data)[2]),
                   Tail(teams_data))

\* insert_teams_batch(teams_data); db_ok = FALSE: executemany or commit raises
\* and the batch is rolled back
insert_teams_batch(teams_data, db_ok) ==
  /\ IF teams_data = <<>>
     THEN /\ w_ret' = 0
          /\ UNCHANGED raw_teams
     ELSE IF db_ok
     THEN /\ raw_teams' = ExecuteMany(raw_teams, teams_data)
          /\ w_ret' = Len(teams_data)
     ELSE /\ w_ret' = 0
          /\ UNCHANGED raw_teams
  /\ UNCHANGED raw

\* insert_scoreboard_data(conn, competition_id, scoreboard_data)
insert_scoreboard_data(competition_id, scoreboard_data, db_ok) ==
  LET canonical == canonicalize_json(scoreboard_data)
      source_hash == Sha256(canonical)
      row == [match_number |-> competition_id, payload |-> scoreboard_data,
              source |-> << <<"txt", "sasp-scoreboard">>, <<"num", competition_id>> >>,
              source_hash |-> source_hash]
  IN /\ IF db_ok
        THEN /\ raw' = [raw EXCEPT !["raw_scoreboard"] = InsertRow(@, row)]
             /\ w_ret' = IF HasHash(raw["raw_scoreboard"], source_hash) THEN 0 ELSE 1
        ELSE /\ w_ret' = 0
             /\ UNCHANGED raw
     /\ UNCHANGED raw_teams

\* the batches process_team_range hands over: the fetched teams of a chunk,
\* each id once, in the order of their ids
RECURSIVE AsBatch(_, _)
AsBatch(ids, data) ==
  IF ids = {} THEN <<>>
  ELSE LET id == CHOOSE i \in ids : \A j \in ids : i <= j
       IN << <<id, data[id]>> >> \o AsBatch(ids \ {id}, data)

TeamBatches ==
  UNION { { AsBatch(ids, data) : data \in [ids -> Payloads] } : ids \in (SUBSET WriterIds) \ {{}} }

InitWriters ==
  /\ raw_teams = {}
  /\ w_ret = 0

(***************************************************************************)
(* src/scripts/bronze/concurrent_scoreboard_ingest.py :                    *)
(* fetch_scoreboard and process_scoreboard_batch                           *)
(***************************************************************************)

VARIABLES p_pc, p_idx, p_results, p_events

scoreVars == <<p_pc, p_idx, p_results, p_events>>

\* bound: len(competition_ids) of one call
ScoreIds == 4

\* MAX_RETRIES of concurrent_scoreboard_ingest
SB_MAX_RETRIES == 3

\* what one session.get attempt ends with: 200, 404, or another status or a
\* RequestException
AttemptKinds == {"200", "404", "error"}
FetchInputs == [1..SB_MAX_RETRIES -> AttemptKinds]

\* fetch_scoreboard: the data of the first 200, None at the first 404, None
\* when MAX_RETRIES attempts have failed
RECURSIVE FetchFrom(_, _)
FetchFrom(attempts, attempt) ==
  IF attempt > SB_MAX_RETRIES THEN "None"
  ELSE IF attempts[attempt] = "200" THEN "data"
  ELSE IF attempts[attempt] = "404" THEN "None"
  ELSE FetchFrom(attempts, attempt + 1)

fetch_scoreboard(attempts) == FetchFrom(attempts, 1)

\* what happened to the competition: the first attempt that was not an error
RECURSIVE Happened(_, _)
Happened(attempts, attempt) ==
  IF attempt > SB_MAX_RETRIES THEN "fetch_failed"
  ELSE IF attempts[attempt] = "200" THEN "fetched"
  ELSE IF attempts[attempt] = "404" THEN "not_found"
  ELSE Happened(attempts, attempt + 1)

\* what the INSERT of insert_scoreboard_data does: a row comes back, none comes
\* back, or it raises; the function returns True only in the first case
InsertKinds == {"inserted", "duplicate", "error"}
InsertReturns(kind) == kind = "inserted"

ZeroResults == [successful |-> 0, failed |-> 0, not_found |-> 0, duplicate |-> 0]
ZeroEvents == [inserted |-> 0, duplicate |-> 0, not_found |-> 0,
               insert_failed |-> 0, fetch_failed |-> 0]

\* the key of results that one pass of the loop increments
CountedAs(scoreboard_data, insert_kind) ==
  IF scoreboard_data # "None"
  THEN (IF InsertReturns(insert_kind) THEN "successful" ELSE "duplicate")
  ELSE "not_found"

\* one pass of the loop of process_scoreboard_batch
ScoreStep(attempts, insert_kind) ==
  /\ p_pc = "loop"
  /\ p_idx <= ScoreIds
  /\ LET scoreboard_data == fetch_scoreboard(attempts)
         key == CountedAs(scoreboard_data, insert_kind)
         event == IF Happened(attempts, 1) # "fetched" THEN Happened(attempts, 1)
                  ELSE IF insert_kind = "error" THEN "insert_failed" ELSE insert_kind
     IN /\ p_results' = [p_results EXCEPT ![key] = @ + 1]
        /\ p_events' = [p_events EXCEPT ![event] = @ + 1]
  /\ p_idx' = p_idx + 1
  /\ UNCHANGED p_pc

\* return results
ScoreReturn ==
  /\ p_pc = "loop"
  /\ p_idx > ScoreIds
  /\ p_pc' = "returned"
  /\ UNCHANGED <<p_idx, p_results, p_events>>

InitScore ==
  /\ p_pc = "loop"
  /\ p_idx = 1
  /\ p_results = ZeroResults
  /\ p_events = ZeroEvents

(***************************************************************************)
(* src/src/ingest.py : http_get_with_backoff, the delay between attempts   *)
(***************************************************************************)

VARIABLES d_initial_backoff, d_max_backoff, d_header, d_from, d_sleep_for

delayVars == <<d_initial_backoff, d_max_backoff, d_header, d_from, d_sleep_for>>

\* bounds: max_backoff and initial_backoff of a call, in units of half a second
MaxBackoff == 3
MaxInitialBackoff == 1

\* multiplier=2.0
multiplier == 2

\* time.sleep raising ValueError
VALUEERR == -6

\* the outcomes of an attempt in the runs that look at the delay
DelayOutcomes == {200, 429, 503, TIMEOUT}

\* resp.headers.get('Retry-After'): absent, empty, an integer in decimal, or
\* another text (an HTTP date, "1.5")
RetryAfterHeaders ==
  {[kind |-> "absent", val |-> 0], [kind |-> "empty", val |-> 0], [kind |-> "text", val |-> 0]}
  \cup {[kind |-> "int", val |-> v] : v \in {-1, 0, 2, MaxBackoff + 2}}

\* if ra: ... int(ra), with ValueError caught: is sleep_for set from the header
HeaderGivesSleep(resp, header) ==
  resp # NULL /\ header.kind = "int"

RECURSIVE Pow(_, _)
Pow(b, e) == IF e = 0 THEN 1 ELSE b * Pow(b, e - 1)

\* exp = initial_backoff * (multiplier ** (attempt - 1)); cap = min(exp, max_backoff)
Cap(initial_backoff, max_backoff, attempt) ==
  LET exp == initial_backoff * Pow(multiplier, attempt - 1)
  IN IF exp < max_backoff THEN exp ELSE max_backoff

\* http_get_with_backoff(url, max_retries, initial_backoff, max_backoff): entry
DelayCall(max_retries, initial_backoff, max_backoff) ==
  /\ HttpCall(max_retries)
  /\ d_initial_backoff' = initial_backoff
  /\ d_max_backoff' = max_backoff
  /\ d_header' = [kind |-> "absent", val |-> 0]
  /\ d_from' = "none"
  /\ d_sleep_for' = 0

\* one pass of the loop up to the call of time.sleep: the attempt, then
\* sleep_for from the header or from random.uniform(0, cap), drawn as u
DelayAttempt(outcome, header, u) ==
  /\ HttpAttempt(outcome)
  /\ (CaughtException(outcome) => header.kind = "absent")
  /\ d_header' = header
  /\ IF h_pc' # "sleep"
     THEN /\ u = 0
          /\ d_from' = "none"
          /\ d_sleep_for' = 0
     ELSE IF HeaderGivesSleep(h_resp', header)
     THEN /\ u = 0
          /\ d_from' = "header"
          /\ d_sleep_for' = header.val
     ELSE /\ u \in 0..Cap(d_initial_backoff, d_max_backoff, h_attempt')
          /\ d_from' = "computed"
          /\ d_sleep_for' = u
  /\ UNCHANGED <<d_initial_backoff, d_max_backoff>>

\* time.sleep(sleep_for): returns after the delay, or raises ValueError for a
\* negative length
DelaySleep ==
  /\ h_pc = "sleep"
  /\ IF d_sleep_for < 0
     THEN /\ h_pc' = "raised"
          /\ h_result' = VALUEERR
     ELSE /\ h_pc' = "loop"
          /\ UNCHANGED h_result
  /\ UNCHANGED <<h_max_retries, h_attempt, h_resp, h_last_exc, h_outcomes>>
  /\ UNCHANGED delayVars

InitDelay ==
  /\ d_initial_backoff = 1
  /\ d_max_backoff = MaxBackoff
  /\ d_header = [kind |-> "absent", val |-> 0]
  /\ d_from = "none"
  /\ d_sleep_for = 0

(***************************************************************************)
(* src/scripts/ingest_competitions.py : main, the paged scan               *)
(***************************************************************************)

VARIABLES g_pc, g_force, g_permanent, g_archive, g_page, g_consecutive_empty,
          g_total_inserted, g_iters, g_visited, g_log, g_clean, g_stop

pageVars == <<g_pc, g_force, g_permanent, g_archive, g_page, g_consecutive_empty,
              g_total_inserted, g_iters, g_visited, g_log, g_clean, g_stop>>

\* the page of the configured URL, and the bound END_PAGE
start_page == 1
END_PAGE == 5

PageIds == start_page..END_PAGE

\* the early stop: consecutive_empty < 3
EmptyLimit == 3

\* what the GET of main ends with: it raises, a status other than 200, or 200
PageGets == {"raise", "non200", "200"}

\* what ingest_endpoint does with the page: it reaches its INSERT, it returns
\* False before that (its own GET, the JSON, the insert failed), or it raises
PageIngests == {"insert", "fail", "raise"}

\* while page <= max_pages and (consecutive_empty < 3 or FORCE_FULL_PAGES)
LoopCondition(page, consecutive_empty, force) ==
  page <= END_PAGE /\ (consecutive_empty < EmptyLimit \/ force)

\* if is_last_page and not FORCE_FULL_PAGES: break
BreakAfter(is_last_page, force) == is_last_page /\ ~force

PageLog(page, did, is_last, stored) ==
  [page |-> page, did |-> did, is_last |-> is_last, stored |-> stored]

\* one pass of the while loop; check_ok = FALSE: is_permanent_404 raises and is
\* caught; is_last: what links.next and meta.last_page of the body say
PageStep(check_ok, get, is_last, ing) ==
  /\ g_pc = "loop"
  /\ LoopCondition(g_page, g_consecutive_empty, g_force)
  /\ g_iters' = g_iters + 1
  /\ UNCHANGED <<g_force, g_permanent>>
  /\ IF check_ok /\ g_page \in g_permanent
     THEN /\ get = "200" /\ ~is_last /\ ing = "insert"
          /\ g_page' = g_page + 1
          /\ g_visited' = g_visited \cup {g_page}
          /\ g_log' = PageLog(g_page, "skipped", FALSE, FALSE)
          /\ g_clean' = FALSE
          /\ UNCHANGED <<g_pc, g_archive, g_consecutive_empty, g_total_inserted, g_stop>>
     ELSE IF get = "raise"
     THEN /\ ~is_last /\ ing = "insert"
          /\ g_pc' = "aborted"
          /\ g_visited' = g_visited \cup {g_page}
          /\ g_log' = PageLog(g_page, "get_raised", FALSE, FALSE)
          /\ g_clean' = FALSE
          /\ UNCHANGED <<g_archive, g_page, g_consecutive_empty, g_total_inserted, g_stop>>
     ELSE IF get = "non200"
     THEN /\ ~is_last /\ ing = "insert"
          /\ g_consecutive_empty' = g_consecutive_empty + 1
          /\ g_page' = g_page + 1
          /\ g_visited' = g_visited \cup {g_page}
          /\ g_log' = PageLog(g_page, "fetched", FALSE, FALSE)
          /\ g_clean' = FALSE
          /\ g_stop' = (g_stop \/ g_consecutive_empty' >= EmptyLimit)
          /\ UNCHANGED <<g_pc, g_archive, g_total_inserted>>
     ELSE IF ing = "raise"
     THEN /\ g_pc' = "aborted"
          /\ g_visited' = g_visited \cup {g_page}
          /\ g_log' = PageLog(g_page, "ingest_raised", is_last, FALSE)
          /\ g_clean' = FALSE
          /\ UNCHANGED <<g_archive, g_page, g_consecutive_empty, g_total_inserted, g_stop>>
     ELSE LET ok == ing = "insert" /\ g_page \notin g_archive
          IN /\ g_archive' = IF ing = "insert" THEN g_archive \cup {g_page} ELSE g_archive
             /\ g_total_inserted' = IF ok THEN g_total_inserted + 1 ELSE g_total_inserted
             /\ g_consecutive_empty' = IF ok THEN 0 ELSE g_consecutive_empty + 1
             /\ g_page' = g_page + 1
             /\ g_visited' = g_visited \cup {g_page}
             /\ g_log' = PageLog(g_page, "fetched", is_last, ok)
             /\ g_clean' = (g_clean /\ ing = "insert" /\ ~is_last)
             /\ g_stop' = (g_stop \/ is_last \/ g_consecutive_empty' >= EmptyLimit)
             /\ g_pc' = IF BreakAfter(is_last, g_force) THEN "done" ELSE "loop"

\* the loop condition is false: the scan is over
PageExit ==
  /\ g_pc = "loop"
  /\ ~LoopCondition(g_page, g_consecutive_empty, g_force)
  /\ g_pc' = "done"
  /\ UNCHANGED <<g_force, g_permanent, g_archive, g_page, g_consecutive_empty,
                 g_total_inserted, g_iters, g_visited, g_log, g_clean, g_stop>>

\* a scan starts: FORCE_FULL_PAGES, the pages marked permanent_404, and the
\* pages whose content an earlier scan archived
InitPagesOf(forces, permanents, archives) ==
  /\ g_pc = "loop"
  /\ g_force \in forces
  /\ g_permanent \in permanents
  /\ g_archive \in archives
  /\ g_page = start_page
  /\ g_consecutive_empty = 0
  /\ g_total_inserted = 0
  /\ g_iters = 0
  /\ g_visited = {}
  /\ g_log = PageLog(0, "start", FALSE, FALSE)
  /\ g_clean = TRUE
  /\ g_stop = FALSE

InitPages == InitPagesOf({FALSE}, {{}}, {{}})

(***************************************************************************)
(* src/scripts/bronze/concurrent_scoreboard_ingest.py : the pace of the    *)
(* worker threads of one batch of main; times are tenths of a second       *)
(***************************************************************************)

VARIABLES q_now, q_latency, q_left, q_wake, q_times

rateVars == <<q_now, q_latency, q_left, q_wake, q_times>>

MAX_WORKERS == 5
\* 3.0 seconds
RATE_LIMIT_DELAY == 30

\* the competitions of one worker batch (worker_batch_size) and the longest
\* time a response takes
IdsPerWorker == 5
MaxLatency == 6

RateWorkers == 1..MAX_WORKERS

Latencies == {0, MaxLatency}

\* time.sleep(RATE_LIMIT_DELAY / MAX_WORKERS)
RatePause == RATE_LIMIT_DELAY \div MAX_WORKERS

\* the sleep of worker w is over and it has a competition left
RateDue(w) == q_left[w] > 0 /\ q_wake[w] <= q_now

\* worker w ends its sleep and sends the request of fetch_scoreboard; the
\* answer (200 or 404, so no retry) comes q_latency[w] later, the insert takes
\* no time, and the next pass of the loop starts with its sleep
RateRequest(w) ==
  /\ RateDue(w)
  /\ q_times' = Append(q_times, q_now)
  /\ q_left' = [q_left EXCEPT ![w] = @ - 1]
  /\ q_wake' = [q_wake EXCEPT ![w] = q_now + q_latency[w] + RatePause]
  /\ UNCHANGED <<q_now, q_latency>>

RECURSIVE MinOf(_)
MinOf(S) ==
  LET x == CHOOSE y \in S : TRUE
  IN IF S = {x} THEN x
     ELSE LET m == MinOf(S \ {x}) IN IF x < m THEN x ELSE m

\* no thread can run: time passes until the first sleep is over
RateTick ==
  /\ \A w \in RateWorkers : ~RateDue(w)
  /\ \E w \in RateWorkers : q_left[w] > 0
  /\ q_now' = MinOf({q_wake[w] : w \in {v \in RateWorkers : q_left[v] > 0}})
  /\ UNCHANGED <<q_latency, q_left, q_wake, q_times>>

\* executor.submit of the worker batches: every thread starts its first pass
InitRateOf(latencies) ==
  /\ q_now = 0
  /\ q_latency \in [RateWorkers -> latencies]
  /\ q_left = [w \in RateWorkers |-> IdsPerWorker]
  /\ q_wake = [w \in RateWorkers |-> RatePause]
  /\ q_times = <<>>

InitRate == InitRateOf({0})

(***************************************************************************)
(* Specifications                                                          *)
(***************************************************************************)

vars == <<ingestVars, httpVars, now, ingester, threadedVars, asyncVars, rangeVars, batchVars, storeVars, updVars, canonVars, writerVars, scoreVars, delayVars, pageVars, rateVars>>

Ingesters == {"ThreadedTeamIngester", "ConcurrentTeamIngester"}

\* the state after construction, with the class that is run chosen from classes
InitOf(classes) ==
  /\ InitIngest /\ InitHttp /\ now = 0 /\ InitThreaded /\ InitAsync /\ InitRange /\ InitBatch /\ InitConcurrentStore /\ InitUpd /\ InitCanon /\ InitWriters /\ InitScore /\ InitDelay /\ InitPages /\ InitRate
  /\ ingester \in classes

\* no team ingester is run
Init == InitOf({"none"})

InitThreadedRun == InitOf({"ThreadedTeamIngester"})

InitAsyncRun == InitOf({"ConcurrentTeamIngester"})

InitTeams == InitOf(Ingesters)

\* inputs a call does not read are fixed, so that each behaviour of the code is enumerated once
Relevant(http, body, insert_ok, lookup_ok, db_ok) ==
  /\ (http # 200 => body = BadJson /\ insert_ok)
  /\ (http # 404 => lookup_ok)
  /\ (http = EXC \/ (http = 200 /\ body = BadJson) => db_ok)
  /\ (~db_ok => lookup_ok)

IngestCalls(tables, urls, results, bodies) ==
  \E table \in tables, url \in urls, http \in results, body \in bodies \cup {BadJson},
     insert_ok \in BOOLEAN, lookup_ok \in BOOLEAN, db_ok \in BOOLEAN :
    /\ Relevant(http, body, insert_ok, lookup_ok, db_ok)
    /\ IngestEndpoint(table, url, http, body, insert_ok, lookup_ok, db_ok)

UpdateCalls(tables, urls, statuses) ==
  \E resource \in tables, url \in urls, status_code \in statuses,
     success \in BOOLEAN, lookup_ok \in BOOLEAN :
    /\ (success \/ ~Is404(status_code) => lookup_ok)
    /\ UpdateUrlStatus(resource, url, status_code, success, lookup_ok)

\* content store: every body into both tables from one URL, and the same
\* content fetched from a second URL
StoreUrl == << <<"txt", "sasp-scoreboard">>, <<"num", 50>> >>
OtherUrl == << <<"txt", "competitions">> >>

NextStore ==
  \/ IngestCalls(Tables, {StoreUrl}, {EXC, 200, 500}, Payloads) /\ UNCHANGED <<httpVars, now, ingester, threadedVars, asyncVars, rangeVars, batchVars, storeVars, updVars, canonVars, writerVars, scoreVars, delayVars, pageVars, rateVars>>
  \/ IngestCalls({"raw_scoreboard"}, {OtherUrl}, {200}, Payloads) /\ UNCHANGED <<httpVars, now, ingester, threadedVars, asyncVars, rangeVars, batchVars, storeVars, updVars, canonVars, writerVars, scoreVars, delayVars, pageVars, rateVars>>

SpecStore == Init /\ [][NextStore]_vars

\* health tracker: one table, the URLs of ids 50 and 98, a row with match_number 100
HealthUrls == { << <<"txt", "sasp-scoreboard">>, <<"num", 50>> >>,
                << <<"txt", "sasp-scoreboard">>, <<"num", 98>> >> }

HealthBodies == { << <<"match_number", 100>>, <<"name", 7>> >> }

NextHealth ==
  \/ IngestCalls({"raw_scoreboard"}, HealthUrls, {200, 404}, HealthBodies) /\ UNCHANGED <<httpVars, now, ingester, threadedVars, asyncVars, rangeVars, batchVars, storeVars, updVars, canonVars, writerVars, scoreVars, delayVars, pageVars, rateVars>>
  \/ UpdateCalls({"raw_scoreboard"}, HealthUrls, {200, 404, 500, NULL}) /\ UNCHANGED <<httpVars, now, ingester, threadedVars, asyncVars, rangeVars, batchVars, storeVars, updVars, canonVars, writerVars, scoreVars, delayVars, pageVars, rateVars>>

SpecHealth == Init /\ [][NextHealth]_vars

\* the retry loop of http_get_with_backoff, call after call
NextHttp ==
  \/ (\E max_retries \in 1..MaxRetries : HttpCall(max_retries)) /\ UNCHANGED <<ingestVars, now, ingester, threadedVars, asyncVars, rangeVars, batchVars, storeVars, updVars, canonVars, writerVars, scoreVars, delayVars, pageVars, rateVars>>
  \/ (\E outcome \in AttemptOutcomes : HttpAttempt(outcome)) /\ UNCHANGED <<ingestVars, now, ingester, threadedVars, asyncVars, rangeVars, batchVars, storeVars, updVars, canonVars, writerVars, scoreVars, delayVars, pageVars, rateVars>>
  \/ HttpSleepDone /\ UNCHANGED <<ingestVars, now, ingester, threadedVars, asyncVars, rangeVars, batchVars, storeVars, updVars, canonVars, writerVars, scoreVars, delayVars, pageVars, rateVars>>

SpecHttp == Init /\ [][NextHttp]_vars

\* a run of ThreadedTeamIngester.process_team_range(1, NumTeams, BatchSize)
NextThreaded ==
  \/ ThreadedSubmit /\ UNCHANGED <<ingestVars, httpVars, ingester, asyncVars, rangeVars, batchVars, storeVars, updVars, canonVars, writerVars, scoreVars, delayVars, pageVars, rateVars>>
  \/ (\E id \in TeamIds : ThreadedPick(id)) /\ UNCHANGED <<ingestVars, httpVars, ingester, asyncVars, rangeVars, batchVars, storeVars, updVars, canonVars, writerVars, scoreVars, delayVars, pageVars, rateVars>>
  \/ (\E id \in TeamIds : ThreadedCheckRateLimit(id)) /\ UNCHANGED <<ingestVars, httpVars, ingester, asyncVars, rangeVars, batchVars, storeVars, updVars, canonVars, writerVars, scoreVars, delayVars, pageVars, rateVars>>
  \/ (\E id \in TeamIds : ThreadedWake(id)) /\ UNCHANGED <<ingestVars, httpVars, ingester, asyncVars, rangeVars, batchVars, storeVars, updVars, canonVars, writerVars, scoreVars, delayVars, pageVars, rateVars>>
  \/ (\E id \in TeamIds, result \in FetchResults : ThreadedHttpDone(id, result)) /\ UNCHANGED <<ingestVars, httpVars, ingester, asyncVars, rangeVars, batchVars, storeVars, updVars, canonVars, writerVars, scoreVars, delayVars, pageVars, rateVars>>
  \/ (\E insert_ok \in BOOLEAN : ThreadedChunkDone(insert_ok)) /\ UNCHANGED <<ingestVars, httpVars, ingester, asyncVars, rangeVars, batchVars, storeVars, updVars, canonVars, writerVars, scoreVars, delayVars, pageVars, rateVars>>
  \/ ThreadedTick /\ UNCHANGED <<ingestVars, httpVars, ingester, asyncVars, rangeVars, batchVars, storeVars, updVars, canonVars, writerVars, scoreVars, delayVars, pageVars, rateVars>>

SpecThreaded == InitThreadedRun /\ [][NextThreaded]_vars

\* the same run, which the operator may interrupt while a chunk is fetched
NextThreadedCancel ==
  \/ NextThreaded
  \/ ThreadedInterrupt /\ UNCHANGED <<ingestVars, httpVars, ingester, asyncVars, rangeVars, batchVars, storeVars, updVars, canonVars, writerVars, scoreVars, delayVars, pageVars, rateVars>>
  \/ ThreadedShutdown /\ UNCHANGED <<ingestVars, httpVars, ingester, asyncVars, rangeVars, batchVars, storeVars, updVars, canonVars, writerVars, scoreVars, delayVars, pageVars, rateVars>>

SpecThreadedCancel == InitThreadedRun /\ [][NextThreadedCancel]_vars

\* a run of ConcurrentTeamIngester.process_team_range(1, NumTeams, BatchSize)
othersOfAsync == <<ingestVars, httpVars, ingester, threadedVars, rangeVars, batchVars, storeVars, updVars, canonVars, writerVars, scoreVars, delayVars, pageVars, rateVars>>

AsyncTaskStep(id) ==
  \/ AsyncEnter(id)
  \/ AsyncSemWake(id)
  \/ AsyncRateWake(id)
  \/ \E result \in FetchResults : AsyncHttpDone(id, result)

NextAsync ==
  \/ AsyncGather /\ UNCHANGED <<ingestVars, httpVars, ingester, threadedVars, rangeVars, batchVars, storeVars, updVars, canonVars, writerVars, scoreVars, delayVars, pageVars, rateVars>>
  \/ (\E id \in TeamIds : AsyncEnter(id)) /\ UNCHANGED <<ingestVars, httpVars, ingester, threadedVars, rangeVars, batchVars, storeVars, updVars, canonVars, writerVars, scoreVars, delayVars, pageVars, rateVars>>
  \/ (\E id \in TeamIds : AsyncSemWake(id)) /\ UNCHANGED <<ingestVars, httpVars, ingester, threadedVars, rangeVars, batchVars, storeVars, updVars, canonVars, writerVars, scoreVars, delayVars, pageVars, rateVars>>
  \/ (\E id \in TeamIds : AsyncRateWake(id)) /\ UNCHANGED <<ingestVars, httpVars, ingester, threadedVars, rangeVars, batchVars, storeVars, updVars, canonVars, writerVars, scoreVars, delayVars, pageVars, rateVars>>
  \/ (\E id \in TeamIds, result \in FetchResults : AsyncHttpDone(id, result))
       /\ UNCHANGED <<ingestVars, httpVars, ingester, threadedVars, rangeVars, batchVars, storeVars, updVars, canonVars, writerVars, scoreVars, delayVars, pageVars, rateVars>>
  \/ AsyncRateLimitReset /\ UNCHANGED <<ingestVars, httpVars, ingester, threadedVars, rangeVars, batchVars, storeVars, updVars, canonVars, writerVars, scoreVars, delayVars, pageVars, rateVars>>
  \/ (\E insert_ok \in BOOLEAN : AsyncChunkDone(insert_ok)) /\ UNCHANGED <<ingestVars, httpVars, ingester, threadedVars, rangeVars, batchVars, storeVars, updVars, canonVars, writerVars, scoreVars, delayVars, pageVars, rateVars>>
  \/ AsyncTick /\ UNCHANGED <<ingestVars, httpVars, ingester, threadedVars, rangeVars, batchVars, storeVars, updVars, canonVars, writerVars, scoreVars, delayVars, pageVars, rateVars>>

SpecAsync == InitAsyncRun /\ [][NextAsync]_vars

\* the event loop runs every task that can run, every request ends, the
\* reset task wakes when its sleep is over
SpecAsyncFair ==
  /\ InitAsyncRun /\ [][NextAsync]_vars
  /\ \A id \in TeamIds : WF_vars(AsyncTaskStep(id) /\ UNCHANGED othersOfAsync)
  /\ WF_vars(AsyncGather /\ UNCHANGED othersOfAsync)
  /\ WF_vars(AsyncRateLimitReset /\ UNCHANGED othersOfAsync)
  /\ WF_vars((\E insert_ok \in BOOLEAN : AsyncChunkDone(insert_ok)) /\ UNCHANGED othersOfAsync)
  /\ WF_vars(AsyncTick /\ UNCHANGED othersOfAsync)

\* runs of ingest_range_for_url over [RangeLo, RangeHi] against one server,
\* each run complete, interrupted, or ended by an exception
NextRange ==
  \/ RangeStart /\ UNCHANGED <<httpVars, now, ingester, threadedVars, asyncVars, batchVars, storeVars, updVars, canonVars, writerVars, scoreVars, delayVars, pageVars, rateVars>>
  \/ (\E fault \in Faults : RangeStep(fault)) /\ UNCHANGED <<httpVars, now, ingester, threadedVars, asyncVars, batchVars, storeVars, updVars, canonVars, writerVars, scoreVars, delayVars, pageVars, rateVars>>
  \/ RangeInterrupt /\ UNCHANGED <<httpVars, now, ingester, threadedVars, asyncVars, batchVars, storeVars, updVars, canonVars, writerVars, scoreVars, delayVars, pageVars, rateVars>>

InitRangeRun ==
  /\ InitIngest /\ InitHttp /\ now = 0 /\ InitThreaded /\ InitAsync /\ InitBatch /\ InitConcurrentStore /\ InitUpd /\ InitCanon /\ InitWriters /\ InitScore /\ InitDelay /\ InitPages /\ InitRate
  /\ ingester = "none"
  /\ server \in Servers
  /\ r_pc = "idle" /\ r_mid = RangeLo /\ r_tried = 0 /\ r_inserted = 0 /\ r_requests = 0
  /\ r_log = [mid |-> 0, did |-> "start", fault |-> "none"] /\ r_clean = TRUE /\ r_fresh = TRUE
  /\ r_faults = 0 /\ r_stops = 0

SpecRange == InitRangeRun /\ [][NextRange]_vars

\* a run of main of one of the batched orchestrators
NextBatch ==
  \/ (\E outcome \in ItemOutcomes : BatchStep(outcome)) /\ UNCHANGED <<ingestVars, httpVars, now, ingester, threadedVars, asyncVars, rangeVars, storeVars, updVars, canonVars, writerVars, scoreVars, delayVars, pageVars, rateVars>>
  \/ BatchFinish /\ UNCHANGED <<ingestVars, httpVars, now, ingester, threadedVars, asyncVars, rangeVars, storeVars, updVars, canonVars, writerVars, scoreVars, delayVars, pageVars, rateVars>>
  \/ BatchInterrupt /\ UNCHANGED <<ingestVars, httpVars, now, ingester, threadedVars, asyncVars, rangeVars, storeVars, updVars, canonVars, writerVars, scoreVars, delayVars, pageVars, rateVars>>

InitBatchRun ==
  /\ InitIngest /\ InitHttp /\ now = 0 /\ InitThreaded /\ InitAsync /\ InitRange /\ InitConcurrentStore /\ InitUpd /\ InitCanon /\ InitWriters /\ InitScore /\ InitDelay /\ InitPages /\ InitRate
  /\ ingester = "none"
  /\ InitBatchOf(Orchestrators)

SpecBatch == InitBatchRun /\ [][NextBatch]_vars

\* workers that fetched bodies store them into one table
NextConcurrentStore ==
  \/ (\E w \in StoreWorkers, body \in Payloads : StoreFetch(w, body)) /\ UNCHANGED <<ingestVars, httpVars, now, ingester, threadedVars, asyncVars, rangeVars, batchVars, updVars, canonVars, writerVars, scoreVars, delayVars, pageVars, rateVars>>
  \/ (\E w \in StoreWorkers : StoreInsert(w)) /\ UNCHANGED <<ingestVars, httpVars, now, ingester, threadedVars, asyncVars, rangeVars, batchVars, updVars, canonVars, writerVars, scoreVars, delayVars, pageVars, rateVars>>
  \/ (\E w \in StoreWorkers : StoreCommit(w)) /\ UNCHANGED <<ingestVars, httpVars, now, ingester, threadedVars, asyncVars, rangeVars, batchVars, updVars, canonVars, writerVars, scoreVars, delayVars, pageVars, rateVars>>
  \/ (\E w \in StoreWorkers : StoreRecheck(w)) /\ UNCHANGED <<ingestVars, httpVars, now, ingester, threadedVars, asyncVars, rangeVars, batchVars, updVars, canonVars, writerVars, scoreVars, delayVars, pageVars, rateVars>>

InitConcurrentStoreRun ==
  /\ InitIngest /\ InitHttp /\ now = 0 /\ InitThreaded /\ InitAsync /\ InitRange /\ InitBatch /\ InitUpd /\ InitCanon /\ InitWriters /\ InitScore /\ InitDelay /\ InitPages /\ InitRate
  /\ ingester = "none"
  /\ InitStoreOf(StoreModes)

SpecConcurrentStore == InitConcurrentStoreRun /\ [][NextConcurrentStore]_vars

\* the tables when the concurrent calls begin: one stored match, fetched from
\* the URL of id 98, and the URL of id 50 answered 404 n times in a row
StartTables ==
  LET body == << <<"match_number", 100>>, <<"name", 7>> >>
      url == << <<"txt", "sasp-scoreboard">>, <<"num", 98>> >>
      canonical == canonicalize_json(body)
  IN [t \in Tables |->
        IF t = UpdResource
        THEN << [match_number |-> MatchNumberOf(body, url), payload |-> canonical,
                 source |-> url, source_hash |-> Sha256(canonical)] >>
        ELSE <<>>]

RECURSIVE AfterMisses(_)
AfterMisses(n) ==
  IF n = 0
  THEN update_url_status(<<>>, StartTables, UpdResource,
                         << <<"txt", "sasp-scoreboard">>, <<"num", 98>> >>, 200, TRUE, TRUE)
  ELSE update_url_status(AfterMisses(n - 1), StartTables, UpdResource, UpdUrl, 404, FALSE, TRUE)

\* concurrent update_url_status calls for one URL, one call per worker
NextConcurrentHealth ==
  \/ (\E w \in Updaters, kind \in CallKinds : ConcUpsert(w, kind)) /\ UNCHANGED <<httpVars, now, ingester, threadedVars, asyncVars, rangeVars, batchVars, storeVars, canonVars, writerVars, scoreVars, delayVars, pageVars, rateVars>>
  \/ (\E w \in Updaters : ConcSuccess(w)) /\ UNCHANGED <<httpVars, now, ingester, threadedVars, asyncVars, rangeVars, batchVars, storeVars, canonVars, writerVars, scoreVars, delayVars, pageVars, rateVars>>
  \/ (\E w \in Updaters : ConcFirst404(w)) /\ UNCHANGED <<httpVars, now, ingester, threadedVars, asyncVars, rangeVars, batchVars, storeVars, canonVars, writerVars, scoreVars, delayVars, pageVars, rateVars>>
  \/ (\E w \in Updaters, lookup_ok \in BOOLEAN : ConcSelectMax(w, lookup_ok)) /\ UNCHANGED <<httpVars, now, ingester, threadedVars, asyncVars, rangeVars, batchVars, storeVars, canonVars, writerVars, scoreVars, delayVars, pageVars, rateVars>>
  \/ (\E w \in Updaters : ConcWrite404(w)) /\ UNCHANGED <<httpVars, now, ingester, threadedVars, asyncVars, rangeVars, batchVars, storeVars, canonVars, writerVars, scoreVars, delayVars, pageVars, rateVars>>
  \/ (\E w \in Updaters : ConcOther(w)) /\ UNCHANGED <<httpVars, now, ingester, threadedVars, asyncVars, rangeVars, batchVars, storeVars, canonVars, writerVars, scoreVars, delayVars, pageVars, rateVars>>

InitConcurrentHealthRun ==
  /\ InitHttp /\ now = 0 /\ InitThreaded /\ InitAsync /\ InitRange /\ InitBatch /\ InitConcurrentStore /\ InitCanon /\ InitWriters /\ InitScore /\ InitDelay /\ InitPages /\ InitRate
  /\ ingester = "none"
  /\ raw = StartTables
  /\ url_status \in {AfterMisses(n) : n \in 0..StartMisses}
  /\ ret = FALSE
  /\ lastOp = NoOp
  /\ u_pc = [w \in Updaters |-> "idle"]
  /\ u_call = [w \in Updaters |-> "none"]
  /\ u_read = [w \in Updaters |-> [consecutive_404 |-> 0, first_404_at |-> NULL]]
  /\ u_max = [w \in Updaters |-> NULL]
  /\ u_start = url_status

SpecConcurrentHealth == InitConcurrentHealthRun /\ [][NextConcurrentHealth]_vars

\* canonicalize_json and the hash applied to two received bodies, the first
\* of them sent without whitespace
NextCanon ==
  \/ Canonicalize /\ UNCHANGED <<ingestVars, httpVars, now, ingester, threadedVars, asyncVars, rangeVars, batchVars, storeVars, updVars, writerVars, scoreVars, delayVars, pageVars, rateVars>>

InitCanonRun ==
  /\ InitIngest /\ InitHttp /\ now = 0 /\ InitThreaded /\ InitAsync /\ InitRange /\ InitBatch /\ InitConcurrentStore /\ InitUpd /\ InitWriters /\ InitScore /\ InitDelay /\ InitPages /\ InitRate
  /\ ingester = "none"
  /\ InitCanonOf(CompactBodies, Bodies)

SpecCanon == InitCanonRun /\ [][NextCanon]_vars

\* the writers of the raw tables outside ingest_endpoint, called in any order
NextWriters ==
  \/ (\E data \in Payloads, db_ok \in BOOLEAN : insert_scoreboard_data(extract_match_id_from_url(StoreUrl), data, db_ok)) /\ UNCHANGED <<url_status, ret, lastOp, httpVars, now, ingester, threadedVars, asyncVars, rangeVars, batchVars, storeVars, updVars, canonVars, scoreVars, delayVars, pageVars, rateVars>>
  \/ (\E id \in WriterIds, data \in Payloads, db_ok \in BOOLEAN : insert_team(id, data, db_ok)) /\ UNCHANGED <<url_status, ret, lastOp, httpVars, now, ingester, threadedVars, asyncVars, rangeVars, batchVars, storeVars, updVars, canonVars, scoreVars, delayVars, pageVars, rateVars>>
  \/ (\E teams_data \in TeamBatches, db_ok \in BOOLEAN : insert_teams_batch(teams_data, db_ok)) /\ UNCHANGED <<url_status, ret, lastOp, httpVars, now, ingester, threadedVars, asyncVars, rangeVars, batchVars, storeVars, updVars, canonVars, scoreVars, delayVars, pageVars, rateVars>>

InitWritersRun ==
  /\ InitIngest /\ InitHttp /\ now = 0 /\ InitThreaded /\ InitAsync /\ InitRange /\ InitBatch /\ InitConcurrentStore /\ InitUpd /\ InitCanon /\ InitScore /\ InitDelay /\ InitPages /\ InitRate
  /\ ingester = "none"
  /\ InitWriters

SpecWriters == InitWritersRun /\ [][NextWriters]_vars

\* one call of process_scoreboard_batch
NextScore ==
  \/ (\E attempts \in FetchInputs, insert_kind \in InsertKinds : ScoreStep(attempts, insert_kind)) /\ UNCHANGED <<ingestVars, httpVars, now, ingester, threadedVars, asyncVars, rangeVars, batchVars, storeVars, updVars, canonVars, writerVars, delayVars, pageVars, rateVars>>
  \/ ScoreReturn /\ UNCHANGED <<ingestVars, httpVars, now, ingester, threadedVars, asyncVars, rangeVars, batchVars, storeVars, updVars, canonVars, writerVars, delayVars, pageVars, rateVars>>

InitScoreRun ==
  /\ InitIngest /\ InitHttp /\ now = 0 /\ InitThreaded /\ InitAsync /\ InitRange /\ InitBatch /\ InitConcurrentStore /\ InitUpd /\ InitCanon /\ InitWriters /\ InitDelay /\ InitPages /\ InitRate
  /\ ingester = "none"
  /\ InitScore

SpecScore == InitScoreRun /\ [][NextScore]_vars

\* calls of http_get_with_backoff with their delays
NextDelay ==
  \/ (\E max_retries \in 1..MaxRetries, initial_backoff \in 1..MaxInitialBackoff, max_backoff \in 1..MaxBackoff :
        DelayCall(max_retries, initial_backoff, max_backoff)) /\ UNCHANGED <<ingestVars, now, ingester, threadedVars, asyncVars, rangeVars, batchVars, storeVars, updVars, canonVars, writerVars, scoreVars, pageVars, rateVars>>
  \/ (\E outcome \in DelayOutcomes, header \in RetryAfterHeaders, u \in 0..MaxBackoff :
        DelayAttempt(outcome, header, u)) /\ UNCHANGED <<ingestVars, now, ingester, threadedVars, asyncVars, rangeVars, batchVars, storeVars, updVars, canonVars, writerVars, scoreVars, pageVars, rateVars>>
  \/ DelaySleep /\ UNCHANGED <<ingestVars, now, ingester, threadedVars, asyncVars, rangeVars, batchVars, storeVars, updVars, canonVars, writerVars, scoreVars, pageVars, rateVars>>

InitDelayRun ==
  /\ InitIngest /\ InitHttp /\ now = 0 /\ InitThreaded /\ InitAsync /\ InitRange /\ InitBatch /\ InitConcurrentStore /\ InitUpd /\ InitCanon /\ InitWriters /\ InitScore /\ InitPages /\ InitRate
  /\ ingester = "none"
  /\ InitDelay

SpecDelay == InitDelayRun /\ [][NextDelay]_vars

\* a paged scan of ingest_competitions.main: a first run, or a run over pages
\* 1..k that an earlier run archived
NextPages ==
  \/ (\E check_ok \in BOOLEAN, get \in PageGets, is_last \in BOOLEAN, ing \in PageIngests :
        PageStep(check_ok, get, is_last, ing)) /\ UNCHANGED <<ingestVars, httpVars, now, ingester, threadedVars, asyncVars, rangeVars, batchVars, storeVars, updVars, canonVars, writerVars, scoreVars, delayVars, rateVars>>
  \/ PageExit /\ UNCHANGED <<ingestVars, httpVars, now, ingester, threadedVars, asyncVars, rangeVars, batchVars, storeVars, updVars, canonVars, writerVars, scoreVars, delayVars, rateVars>>

InitPagesRun ==
  /\ InitIngest /\ InitHttp /\ now = 0 /\ InitThreaded /\ InitAsync /\ InitRange /\ InitBatch /\ InitConcurrentStore /\ InitUpd /\ InitCanon /\ InitWriters /\ InitScore /\ InitDelay /\ InitRate
  /\ ingester = "none"
  /\ InitPagesOf(BOOLEAN, {{}, {start_page + 1}}, {start_page..k : k \in (start_page - 1)..END_PAGE})

SpecPages == InitPagesRun /\ [][NextPages]_vars

\* the worker threads of one batch of concurrent_scoreboard_ingest.main
NextRate ==
  \/ (\E w \in RateWorkers : RateRequest(w)) /\ UNCHANGED <<ingestVars, httpVars, now, ingester, threadedVars, asyncVars, rangeVars, batchVars, storeVars, updVars, canonVars, writerVars, scoreVars, delayVars, pageVars>>
  \/ RateTick /\ UNCHANGED <<ingestVars, httpVars, now, ingester, threadedVars, asyncVars, rangeVars, batchVars, storeVars, updVars, canonVars, writerVars, scoreVars, delayVars, pageVars>>

InitRateRun ==
  /\ InitIngest /\ InitHttp /\ now = 0 /\ InitThreaded /\ InitAsync /\ InitRange /\ InitBatch /\ InitConcurrentStore /\ InitUpd /\ InitCanon /\ InitWriters /\ InitScore /\ InitDelay /\ InitPages
  /\ ingester = "none"
  /\ InitRateOf(Latencies)

SpecRate == InitRateRun /\ [][NextRate]_vars

\* a run of process_team_range of either class
NextTeams ==
  \/ ingester = "ThreadedTeamIngester" /\ NextThreaded
  \/ ingester = "ConcurrentTeamIngester" /\ NextAsync

SpecTeams == InitTeams /\ [][NextTeams]_vars

(***************************************************************************)
(* Reading the last call                                                   *)
(***************************************************************************)

\* did the call reach update_url_status
CallsUpdate(o) ==
  \/ o.op = "update_url_status"
  \/ o.op = "ingest_endpoint" /\ o.status # EXC /\ ~(o.status = 200 /\ o.body = BadJson)

\* the success argument it passed
UpdSuccess(o) ==
  IF o.op = "update_url_status" THEN o.success ELSE o.status = 200 /\ o.insert_ok

\* the status_code argument it passed
UpdStatus(o) ==
  IF o.op = "update_url_status" \/ o.status # 200 THEN o.status
  ELSE IF o.insert_ok THEN 200 ELSE NULL

\* update_url_status ran to its end
Recorded(o) == CallsUpdate(o) /\ o.db_ok

\* ingest_endpoint got a 200 with a parsable body and its INSERT did not raise
InsertRan(o) ==
  o.op = "ingest_endpoint" /\ o.status = 200 /\ o.body # BadJson /\ o.insert_ok

\* the counters of a URL, with the column defaults when it has no record
Counters(us, url) ==
  IF url \in DOMAIN us
  THEN <<us[url].consecutive_404, us[url].first_404_at, us[url].permanent_404>>
  ELSE <<0, NULL, FALSE>>

(***************************************************************************)
(* Content store                                                           *)
(***************************************************************************)

\* C1: a call of ingest_endpoint whose response has canonical content h
\* leaves exactly one row with source_hash h in its table; it returns True
\* when no such row existed before and otherwise returns False and leaves
\* every table as it was.
C1_IdempotentStore ==
  [][InsertRan(lastOp') =>
       LET t == lastOp'.table
           h == Sha256(canonicalize_json(lastOp'.body))
       IN /\ CountHash(raw'[t], h) = 1
          /\ (HasHash(raw[t], h) => ret' = FALSE /\ raw' = raw)
          /\ (~HasHash(raw[t], h) => ret' = TRUE /\ Len(raw'[t]) = Len(raw[t]) + 1)
          /\ \A u \in Tables \ {t} : raw'[u] = raw[u]]_vars

\* a second fetch of the same content, with its keys in another order and
\* from another URL, was just answered False
C1_Witness ==
  /\ InsertRan(lastOp)
  /\ ret = FALSE
  /\ lastOp.body = << <<"name", 7>>, <<"match_number", 100>> >>
  /\ \E i \in DOMAIN raw[lastOp.table] :
       /\ raw[lastOp.table][i].source_hash = Sha256(canonicalize_json(lastOp.body))
       /\ raw[lastOp.table][i].source # lastOp.url
  /\ Len(raw[lastOp.table]) = 2

(***************************************************************************)
(* URL health tracker                                                      *)
(***************************************************************************)

\* the threshold condition of the claim, on the rows archived for the resource
ThresholdCondition(o) ==
  LET r == url_status[o.url]
      max_seen == MaxMatch(raw[o.table])
  IN /\ r.consecutive_404 >= perm_threshold
     /\ max_seen # NULL
     /\ extract_match_id_from_url(o.url) # NULL
     /\ extract_match_id_from_url(o.url) <= max_seen - future_margin

Recorded404(o) == Recorded(o) /\ ~UpdSuccess(o) /\ UpdStatus(o) = 404

C3_PermanenceMonotonic ==
  [][\A url \in DOMAIN url_status :
       (url_status[url].permanent_404 /\ ~url_status'[url].permanent_404)
         => (Recorded(lastOp') /\ lastOp'.url = url /\ UpdSuccess(lastOp'))]_vars

\* C4: a failure with a status other than 404 leaves consecutive_404,
\* first_404_at and permanent_404 of every URL as they were.
C4_Non404Isolation ==
  [][(CallsUpdate(lastOp') /\ ~UpdSuccess(lastOp') /\ UpdStatus(lastOp') # 404)
       => \A url \in DOMAIN url_status' :
            Counters(url_status', url) = Counters(url_status, url)]_vars

\* a 500 was just recorded for a URL that has 404s counted and is permanent
C4_Witness ==
  /\ Recorded(lastOp) /\ ~UpdSuccess(lastOp) /\ UpdStatus(lastOp) = 500
  /\ url_status[lastOp.url].last_status = 500
  /\ url_status[lastOp.url].consecutive_404 = 5
  /\ url_status[lastOp.url].first_404_at # NULL
  /\ url_status[lastOp.url].permanent_404

\* C5: right after update_url_status records a success the record has
\* consecutive_404 = 0, first_404_at unset, permanent_404 false,
\* last_status 200 and last_success_at set.
C5_SuccessReset ==
  (Recorded(lastOp) /\ UpdSuccess(lastOp)) =>
    LET r == url_status[lastOp.url]
    IN /\ r.consecutive_404 = 0
       /\ r.first_404_at = NULL
       /\ r.permanent_404 = FALSE
       /\ r.last_status = 200
       /\ r.last_success_at # NULL

\* a success was just recorded by a direct call that passed another status
\* than 200, next to a URL that is permanent
C5_Witness ==
  /\ Recorded(lastOp) /\ UpdSuccess(lastOp)
  /\ lastOp.op = "update_url_status" /\ lastOp.status = 404
  /\ url_status[lastOp.url].last_status = 200
  /\ \E u \in DOMAIN url_status : url_status[u].permanent_404

(***************************************************************************)
(* Retrying GET                                                            *)
(***************************************************************************)

\* the outcomes the policy retries
RetriedOutcome(o) == o \in {TIMEOUT, CONNERR} \/ o = 429 \/ (o >= 500 /\ o <= 599)

ResponsesOf(outcomes) == SelectSeq(outcomes, LAMBDA o : ~CaughtException(o) /\ o # OTHERERR)

\* the call ended because its attempts were used up
ExhaustedCall ==
  /\ h_pc \in {"returned", "raised"}
  /\ Len(h_outcomes) = h_max_retries
  /\ RetriedOutcome(h_outcomes[Len(h_outcomes)])

\* C11: a call that used up its attempts returns the last response received
\* in any of its attempts, and raises the last transport exception only if
\* none of its attempts obtained a response.
C11_ExhaustionOutcome ==
  ExhaustedCall =>
    LET got == ResponsesOf(h_outcomes)
    IN IF Len(got) > 0
       THEN h_pc = "returned" /\ h_result = got[Len(got)]
       ELSE h_pc = "raised" /\ h_result = h_outcomes[Len(h_outcomes)]

(***************************************************************************)
(* Rate and concurrency limits of the team ingesters                       *)
(***************************************************************************)

\* the recorded starts that lie in the 60 seconds ending with start i
InWindow(starts, i) ==
  {j \in DOMAIN starts : starts[i] - WindowSecs < starts[j] /\ starts[j] <= starts[i]}

\* no 60-second window holds more than limit recorded starts
RateBound(starts, limit) ==
  \A i \in DOMAIN starts : Cardinality(InWindow(starts, i)) <= limit

C7_AsyncRateBound == RateBound(a_admitted, a_rate_limit_per_minute)

\* C8: every fetch task that waits for a permit of the concurrency semaphore
\* or of the rate limiter is eventually admitted and completes.
C8_BlockedCallersAdmitted ==
  \A id \in TeamIds : (a_pc[id] \in {"wait_sem", "wait_rate"}) ~> (a_pc[id] = "done")

\* C9: the requests in flight never exceed max_workers (threaded) or
\* max_concurrent (asyncio); every permit of the asyncio semaphore is either
\* free or held by a task that has not ended, so all are free again when the
\* tasks of a chunk have ended, whatever their outcomes.
C9_ConcurrencyBound ==
  /\ Cardinality(InFlight(t_pc)) <= max_workers
  /\ Cardinality(Busy(t_pc)) <= max_workers
  /\ Cardinality(AsyncInFlight(a_pc)) <= max_concurrent
  /\ a_semaphore + Cardinality(SemHolders(a_pc)) = max_concurrent
  /\ a_semaphore >= 0

\* max_concurrent requests are in flight, a further task waits for a permit,
\* and a task that ended in an error has given its permit back
C9_Witness ==
  /\ Cardinality(AsyncInFlight(a_pc)) = max_concurrent
  /\ a_semaphore = 0
  /\ \E id \in TeamIds : a_pc[id] = "wait_sem"
  /\ \E id \in TeamIds : a_pc[id] = "done" /\ a_result[id] = "ERROR"

(***************************************************************************)
(* Range ingestion                                                         *)
(***************************************************************************)

\* this step is the loop of ingest_range_for_url handling id r_mid
HandlesTarget == r_pc = "loop" /\ (r_mid' = r_mid + 1 \/ r_pc' \in {"done", "aborted"})

\* is_permanent_404 returned (did not raise) for the id handled by this step
CheckReturned == r_log'.fault \notin {"check", "conn"}

\* C12: an id whose URL is_permanent_404 reports true is passed over: no HTTP
\* request is issued, url_status and the raw tables stay as they are, and the
\* tried counter is not incremented.
C12_SkipPermanent ==
  [][(HandlesTarget /\ CheckReturned /\ is_permanent_404(url_status, RangeUrl(r_mid)))
       => /\ r_log'.did = "skipped"
          /\ r_requests' = r_requests
          /\ r_tried' = r_tried
          /\ url_status' = url_status
          /\ raw' = raw]_vars

\* a run has just passed over a URL marked permanent after five 404 answers,
\* having tried the other ids of the range
C12_Witness ==
  /\ r_log.did = "skipped"
  /\ is_permanent_404(url_status, RangeUrl(r_log.mid))
  /\ url_status[RangeUrl(r_log.mid)].consecutive_404 = perm_threshold
  /\ r_pc = "done"
  /\ r_tried = RangeHi - RangeLo
  /\ r_requests = r_tried

(***************************************************************************)
(* Health tracking of every attempt                                        *)
(***************************************************************************)

\* C13: after every ingest_endpoint call, whatever its outcome, the URL has a
\* url_status record whose last_checked is set and whose last_status is the
\* status of this attempt (NULL when no status was obtained or the insert
\* failed); calls whose health update itself raised are left aside.
C13_HealthUpdatedEveryAttempt ==
  (lastOp.op = "ingest_endpoint" /\ lastOp.db_ok) =>
    /\ lastOp.url \in DOMAIN url_status
    /\ url_status[lastOp.url].last_checked = TS
    /\ url_status[lastOp.url].last_status
         \in {NULL, IF lastOp.status = EXC THEN NULL ELSE lastOp.status}

\* the insert of this ingest_endpoint call raised and its health update ran
InsertFailed(o) ==
  o.op = "ingest_endpoint" /\ o.status = 200 /\ o.body # BadJson /\ ~o.insert_ok

LastSuccessAt(us, url) == IF url \in DOMAIN us THEN us[url].last_success_at ELSE NULL

\* C14: when the insert of ingest_endpoint fails, the call returns False, no
\* row is stored, and last_success_at, consecutive_404, first_404_at and
\* permanent_404 of the URL keep their values (the column defaults when the
\* record is created by this call); last_status is not a success status.
C14_InsertFailureKeepsHealth ==
  [][InsertFailed(lastOp') =>
       LET url == lastOp'.url
       IN /\ ret' = FALSE
          /\ raw' = raw
          /\ Counters(url_status', url) = Counters(url_status, url)
          /\ LastSuccessAt(url_status', url) = LastSuccessAt(url_status, url)
          /\ (lastOp'.db_ok => url_status'[url].last_status = NULL)]_vars

\* the insert failed for a URL that had a 404 recorded before: the counter is
\* still 1, no success time is set, last_status is NULL
C14_Witness ==
  /\ InsertFailed(lastOp) /\ lastOp.db_ok
  /\ url_status[lastOp.url].consecutive_404 = 1
  /\ url_status[lastOp.url].last_success_at = NULL
  /\ url_status[lastOp.url].last_status = NULL
  /\ ret = FALSE

(***************************************************************************)
(* Resumability and end-to-end range runs                                  *)
(***************************************************************************)

\* the row ingest_endpoint builds for the body of an id
RowOf(mid) ==
  LET url == RangeUrl(mid)
      canonical == canonicalize_json(OwnBody(mid))
  IN [match_number |-> MatchNumberOf(OwnBody(mid), url),
      payload |-> canonical,
      source |-> url,
      source_hash |-> Sha256(canonical)]

\* the archive one uninterrupted, fault-free run over [mid, RangeHi] leaves
\* when it starts with the rows given
RECURSIVE UninterruptedRun(_, _, _)
UninterruptedRun(srv, mid, rows) ==
  IF mid > RangeHi THEN rows
  ELSE UninterruptedRun(srv, mid + 1,
                        IF srv[mid] = "own" THEN InsertRow(rows, RowOf(mid)) ELSE rows)

RowSet(rows) == {rows[i] : i \in DOMAIN rows}

NoDuplicateHash(rows) ==
  \A i, j \in DOMAIN rows : rows[i].source_hash = rows[j].source_hash => i = j

\* C15: against a server whose answers do not change, a run over the whole
\* range that follows stopped (or otherwise incomplete) runs ends with exactly
\* the rows of one uninterrupted run from the empty store: the same
\* source_hash values, none twice, none missing.
C15_Resumability ==
  (r_pc = "done" /\ r_clean) =>
    LET expected == UninterruptedRun(server, RangeLo, <<>>)
    IN /\ RowSet(raw[RangeTable]) = RowSet(expected)
       /\ Len(raw[RangeTable]) = Len(expected)
       /\ NoDuplicateHash(raw[RangeTable])

\* a run was stopped after a prefix that had stored a row; the run over the
\* whole range after it has ended, found that row in place and added another
C15_Witness ==
  /\ r_pc = "done" /\ r_clean
  /\ r_stops = 1 /\ r_faults = 0
  /\ r_tried = RangeHi - RangeLo + 1
  /\ r_inserted >= 1
  /\ Len(raw[RangeTable]) > r_inserted

RowsFrom(rows, url) == {i \in DOMAIN rows : rows[i].source = url}

\* C16: a fault-free run over the range that starts with an empty store and
\* an empty url_status, every id answering 200 with a body of its own or 404,
\* ends with one stored row per 200 id, no row for a 404 id, and for each 404
\* id a record with consecutive_404 = 1 and permanent_404 = false; the run
\* tried every id and counted one insert per 200 id.
C16_EndToEndRange ==
  (r_pc = "done" /\ r_clean /\ r_fresh) =>
    /\ \A mid \in RangeIds :
         LET url == RangeUrl(mid)
         IN IF server[mid] = "own"
            THEN /\ Cardinality(RowsFrom(raw[RangeTable], url)) = 1
                 /\ CountHash(raw[RangeTable], RowOf(mid).source_hash) = 1
            ELSE /\ RowsFrom(raw[RangeTable], url) = {}
                 /\ url \in DOMAIN url_status
                 /\ url_status[url].consecutive_404 = 1
                 /\ url_status[url].permanent_404 = FALSE
    /\ Len(raw[RangeTable]) = Cardinality({mid \in RangeIds : server[mid] = "own"})
    /\ r_inserted = Len(raw[RangeTable])
    /\ r_tried = RangeHi - RangeLo + 1

\* range [1,3] with answers 200, 404, 200: 2 stored rows, 1 not found
C16_Witness ==
  /\ r_pc = "done" /\ r_clean /\ r_fresh
  /\ RangeLo = 1
  /\ server[1] = "own" /\ server[2] = "404" /\ server[3] = "own"
  /\ Len(raw[RangeTable]) = 2
  /\ r_inserted = 2
  /\ url_status[RangeUrl(2)].consecutive_404 = 1
  /\ url_status[RangeUrl(2)].permanent_404 = FALSE
  /\ url_status[RangeUrl(2)].last_status = 404

(***************************************************************************)
(* Interruption of the batched orchestrators                               *)
(***************************************************************************)

\* C17: when the operator interrupts a batched orchestrator, every row the
\* run inserted before the interrupt is committed when its connection is
\* closed.
C17_InterruptKeepsProgress ==
  (b_pc = "closed" /\ b_end = "interrupted") => b_inserted \subseteq b_committed

(***************************************************************************)
(* Concurrent stores                                                       *)
(***************************************************************************)

AllStored == \A w \in StoreWorkers : c_pc[w] = "done"

WorkersOf(h) == {w \in StoreWorkers : HashOf(c_body[w]) = h}

\* C18: when the workers have stored their bodies, in whatever order their
\* inserts interleaved, every canonical content stored by one or more workers
\* has exactly one row, exactly one of those workers observed stored = true
\* and the others observed stored = false; while they run no content has two rows.
C18_ConcurrentDoubleStore ==
  /\ \A i, j \in DOMAIN c_table : c_table[i].source_hash = c_table[j].source_hash => i = j
  /\ AllStored =>
       \A w \in StoreWorkers :
         LET h == HashOf(c_body[w])
         IN /\ Cardinality({i \in DOMAIN c_table : c_table[i].source_hash = h}) = 1
            /\ Cardinality({v \in WorkersOf(h) : c_obs[v] = "true"}) = 1
            /\ \A v \in WorkersOf(h) : c_obs[v] \in {"true", "false"}

\* two workers on their own connections stored the same content, received
\* with its keys in different orders: one row, one true, one false
C18_Witness ==
  /\ AllStored
  /\ c_mode = "own_connection"
  /\ c_body[1] # c_body[2]
  /\ HashOf(c_body[1]) = HashOf(c_body[2])
  /\ Len(c_table) = 1
  /\ c_obs[2] = "true" /\ c_obs[1] = "false"

(***************************************************************************)
(* Serialized health updates                                               *)
(***************************************************************************)

\* the records that running the calls of the workers in S one after another,
\* in any order, can leave
RECURSIVE SerialOutcomes(_, _)
SerialOutcomes(us, S) ==
  IF S = {} THEN {us}
  ELSE UNION { UNION { SerialOutcomes(
                         update_url_status(us, raw, UpdResource, UpdUrl,
                                           CallStatus(u_call[w]), CallSuccess(u_call[w]), lookup_ok),
                         S \ {w}) : lookup_ok \in BOOLEAN } : w \in S }

AllUpdatesDone == \A w \in Updaters : u_pc[w] = "done"

\* C19: when the concurrent update_url_status calls for one URL have all
\* returned, the record equals the one that running the same calls one after
\* another in some order leaves; so k concurrent 404 outcomes raise
\* consecutive_404 by k, and no counter computed before a success survives it
C19_SerializedHealthUpdates ==
  AllUpdatesDone => url_status \in SerialOutcomes(u_start, Updaters)

(***************************************************************************)
(* Per-target failures                                                     *)
(***************************************************************************)

\* C20: a failure on one target of ingest_range_for_url (HTTP error status,
\* transport exception, unparsable body, failed insert, storage unavailable,
\* failed health lookup or update) never ends the run: the run goes on to the
\* remaining targets and is never left by an exception
C20_TargetFailuresNeverAbort ==
  r_pc # "aborted"

(***************************************************************************)
(* Canonicalization                                                        *)
(***************************************************************************)

\* the value of a key of an object, NULL when the key is absent
RECURSIVE Member(_, _)
Member(members, key) ==
  IF members = <<>> THEN NULL
  ELSE IF Head(members)[1] = key THEN Head(members)[2] ELSE Member(Tail(members), key)

KeysOf(members) == {members[i][1] : i \in DOMAIN members}

\* equality of structured documents: same keys and equal values at every level
RECURSIVE DocEq(_, _)
DocEq(a, b) ==
  IF a[1] # b[1] THEN FALSE
  ELSE IF a[1] = "num" THEN a[2] = b[2]
  ELSE /\ KeysOf(a[2]) = KeysOf(b[2])
       /\ \A k \in KeysOf(a[2]) : DocEq(Member(a[2], k), Member(b[2], k))

StartsFetch(id) == t_pc[id] = "queued" /\ t_pc'[id] = "rate"

\* the fetches of the interrupted chunk that ended, and those the run counted
FetchedInChunk == {id \in ChunkIds(t_chunk) : t_result[id] # "NONE"}
Counted == t_totals.successful + t_totals.not_found + t_totals.errors

\* C22: once process_team_range is interrupted while a chunk is fetched, no
\* task that had not started is started, and when the run has ended every
\* fetch of the chunk that finished is recorded in the counts
C22_Cancellation ==
  [][ /\ (t_main = "interrupted" => \A id \in TeamIds : ~StartsFetch(id))
      /\ (t_main = "interrupted" /\ t_main' = "cancelled"
            => Counted' = Counted + Cardinality(FetchedInChunk)) ]_vars

(***************************************************************************)
(* Content-hash invariant                                                  *)
(***************************************************************************)

\* the source_hash of a row is a digest of the canonical form of its payload
HashIsDigest(row) ==
  /\ row.source_hash[1] \in {"sha256", "md5"}
  /\ row.source_hash[2] = canonicalize_json(row.payload)

\* no two rows of the table (a list of rows) have the same canonical payload
OneRowPerContent(rows) ==
  \A i, j \in DOMAIN rows :
    canonicalize_json(rows[i].payload) = canonicalize_json(rows[j].payload) => i = j

\* C23: every row of raw_scoreboard and raw_teams, whichever path wrote it,
\* has a source_hash that is the digest of the canonical form of its payload,
\* and no table holds two rows with equal canonical payload
C23_ContentHashInvariant ==
  /\ \A i \in DOMAIN raw["raw_scoreboard"] : HashIsDigest(raw["raw_scoreboard"][i])
  /\ \A row \in raw_teams : HashIsDigest(row)
  /\ OneRowPerContent(raw["raw_scoreboard"])
  /\ \A r1, r2 \in raw_teams :
       canonicalize_json(r1.payload) = canonicalize_json(r2.payload) => r1 = r2

(***************************************************************************)
(* Persistence and fetch failures in the counters                          *)
(***************************************************************************)

\* C24: when process_scoreboard_batch returns, the failed counter holds every
\* competition whose insert raised and every competition whose fetch failed on
\* all its attempts, and the successful, duplicate and not_found counters hold
\* only the competitions that were stored, already present, and answered 404
C24_FailuresCountedAsErrors ==
  p_pc = "returned" =>
    /\ p_results.failed = p_events.insert_failed + p_events.fetch_failed
    /\ p_results.successful = p_events.inserted
    /\ p_results.duplicate = p_events.duplicate
    /\ p_results.not_found = p_events.not_found

(***************************************************************************)
(* Delay between attempts                                                  *)
(***************************************************************************)

\* C25: before the next attempt, a response with an integer Retry-After value
\* makes the call sleep exactly that long, whatever max_backoff is; otherwise
\* the sleep lies between 0 and min(initial_backoff * multiplier^(k-1),
\* max_backoff), k the number of attempts made
C25_DelayBetweenAttempts ==
  /\ (d_from = "header" =>
        /\ d_sleep_for = d_header.val
        /\ ~(h_pc = "raised" /\ h_result = VALUEERR))
  /\ (d_from = "computed" =>
        /\ d_header.kind # "int" \/ h_resp = NULL
        /\ d_sleep_for >= 0
        /\ d_sleep_for <= d_initial_backoff * Pow(multiplier, h_attempt - 1)
        /\ d_sleep_for <= d_max_backoff)

(***************************************************************************)
(* Paged scan                                                              *)
(***************************************************************************)

\* C26: the page loop of ingest_competitions.main makes at most
\* END_PAGE - start_page + 1 passes; with FORCE_FULL_PAGES, when the scan is
\* over every page from start_page to END_PAGE was visited (fetched or skipped
\* as permanently unavailable); without it, once a page was marked as last or
\* three pages in a row were empty, no further page is requested
C26_PaginationScan ==
  /\ g_iters <= END_PAGE - start_page + 1
  /\ (g_force /\ g_pc # "loop" => g_visited = PageIds)
  /\ (~g_force /\ g_stop =>
        g_pc # "loop" \/ ~LoopCondition(g_page, g_consecutive_empty, g_force))

\* C29: in a scan without FORCE_FULL_PAGES in which every page answers 200 with
\* a body that reaches the INSERT and no page is marked as last, pages whose
\* content is already archived do not stop the scan: when it is over, every
\* page up to END_PAGE was fetched and its content is in raw_competition
C29_RerunReachesNewPages ==
  ~g_force /\ g_clean /\ g_pc = "done" =>
    /\ g_visited = PageIds
    /\ PageIds \subseteq g_archive

(***************************************************************************)
(* Aggregate request rate                                                  *)
(***************************************************************************)

\* the requests sent in the 60 seconds that start with request i
SentInWindow(i) ==
  {j \in i..Len(q_times) : q_times[j] < q_times[i] + 10 * WindowSecs}

\* C27: the worker threads of concurrent_scoreboard_ingest together send at
\* most 20 requests in any window of 60 seconds, whatever the latencies of the
\* responses are
C27_AggregateRequestRate ==
  \A i \in 1..Len(q_times) : Cardinality(SentInWindow(i)) <= 20

(***************************************************************************)
(* Counter conservation                                                    *)
(***************************************************************************)

\* every id of the range was admitted to its request once, and the counts add up
Conserved(admitted, totals) ==
  /\ Len(admitted) = NumTeams
  /\ totals.processed = NumTeams
  /\ totals.processed = totals.successful + totals.not_found + totals.errors

\* C28: when process_team_range of ThreadedTeamIngester or of
\* ConcurrentTeamIngester has returned for the ids 1..NumTeams, every id was
\* fetched once and processed = NumTeams = successful + not_found + errors,
\* whatever the fetches and the batch inserts ended with
C28_CounterConservation ==
  /\ (t_main = "returned" => Conserved(t_admitted, t_totals))
  /\ (a_main = "returned" => Conserved(a_admitted, a_totals))

(***************************************************************************)
(* Durability of the rows counted as stored                                *)
(***************************************************************************)

\* C30: when main of concurrent_scoreboard_ingest has finished without an
\* interrupt, every scoreboard whose insert returned True (counted as
\* successful) is among the committed rows of raw_scoreboard, also when
\* another insert of the same batch failed before the commit
C30_CountedRowsDurable ==
  b_kind = "concurrent_scoreboard_ingest" /\ b_end = "finished" =>
    b_inserted \subseteq b_committed

====
